---- MODULE Spec2Model ----
(***************************************************************************)
(* A model of the widget configuration pipeline of ComposeUI:              *)
(*   - HashTable<Key, Value, Capacity> (src/src/utils/HashTable.h), the    *)
(*     fixed-capacity open-addressing table,                               *)
(*   - WidgetRegistry and WidgetPool, the two singleton stores built on it,*)
(*   - Screen and WidgetBuilder, the two state machines that are driven   *)
(*     over the stores,                                                    *)
(*   - Graticules, the grid geometry of the GRAPH widget.                  *)
(*                                                                         *)
(* A table is a function 0..Capacity-1 -> Entry.  A pointer into a table   *)
(* (the result of find) is the index of the slot it points into, NoSlot    *)
(* standing for nullptr.                                                   *)
(***************************************************************************)
EXTENDS Integers, Sequences, FiniteSets, TLC

(***************************************************************************)
(* Bounds of the model.                                                    *)
(***************************************************************************)
\* Capacity of the generic table that Spec and SpecCapacity exercise.
Capacity == 2
\* The keys given to the generic table are 0..MaxKey (MaxKey >= Capacity, so
\* that keys collide and more than Capacity distinct keys exist).
MaxKey == 4
\* The values given to the generic table are 1..MaxValue; 0 is Value{}.
MaxValue == 2
\* The non-null pointers given to the stores are 1..MaxPtr.
MaxPtr == 2

(***************************************************************************)
(* Program constants.                                                      *)
(***************************************************************************)
MAX_WIDGETS == 10
\* Key{} and Value{}: the value-initialised key and value (enumerator 0, or
\* a null pointer).
DefaultKey == 0
DefaultValue == 0
\* nullptr, as a pointer argument or a stored pointer.
NullPtr == 0
\* nullptr, as the result of find.
NoSlot == -1
\* enum class Type { DEFAULT, LABEL, GRAPH }
TypeDEFAULT == 0
TypeLABEL == 1
TypeGRAPH == 2

Keys == 0..MaxKey
Values == 1..MaxValue
Types == {TypeDEFAULT, TypeLABEL, TypeGRAPH}
Ptrs == {NullPtr} \cup (1..MaxPtr)

VARIABLES
    table,          \* the generic HashTable's std::array<Entry, Capacity>
    registry,       \* WidgetRegistry::registry (its table)
    pool,           \* WidgetPool::pool (its table)
    screenState,    \* Screen::state
    screenServices, \* Screen::widgetRegistry, Screen::widgetPool
    builderState,   \* WidgetBuilder::state
    builderServices,\* WidgetBuilder::widgetRegistry, WidgetBuilder::widgetPool
    lastOp,         \* the last setServices call (SpecSetup): its name, its
                    \* arguments and the state it was made in
    pc,             \* where setup() of main.cpp stands (SpecOrchestrator)
    lastIns,        \* history: per key of the generic table, the value of the
                    \* successful insert that was the key's last operation
    log,            \* history: the keys inserted so far (SpecCapacity)
    attributes,     \* the Utils::Widget::Attributes objects, per Type
    widgets,        \* the Widget objects, per Type
    calls,          \* the calls the last handler made on its collaborators
    undefined,      \* whether a null pointer has been dereferenced: "no",
                    \* "trapped" (the program has stopped) or "ran on"
    graticules,     \* the Graticules object
    regMap,         \* history: the mapping the registry was asked to hold
    poolMap         \* history: the mapping the pool was asked to hold

vars == <<table, registry, pool, screenState, screenServices, builderState,
          builderServices, lastOp, pc, lastIns, log, regMap, poolMap,
          attributes, widgets, calls, undefined, graticules>>

(***************************************************************************)
(* HashTable                                                               *)
(***************************************************************************)
\* struct Entry, value-initialised.
Entry == [key |-> DefaultKey, value |-> DefaultValue,
          occupied |-> FALSE, deleted |-> FALSE]

\* HashTable() = default: every slot a default Entry.
HashTable(C) == [i \in 0..(C - 1) |-> Entry]

\* The template parameter Capacity of table t.
CapacityOf(t) == Cardinality(DOMAIN t)

hashFunction(t, key) == key % CapacityOf(t)

\* The loop of insert: the first slot in probe order that is not occupied,
\* is deleted or holds key; NoSlot when the loop runs out.
RECURSIVE insertProbe(_, _, _)
insertProbe(t, key, i) ==
    IF i >= CapacityOf(t) THEN NoSlot
    ELSE LET probe == (hashFunction(t, key) + i) % CapacityOf(t)
         IN  IF ~t[probe].occupied \/ t[probe].deleted \/ t[probe].key = key
             THEN probe
             ELSE insertProbe(t, key, i + 1)

\* A plausible slip in insert: the value is not stored.
insertDropsValue(t, key, value) ==
    LET probe == insertProbe(t, key, 0)
    IN  IF probe = NoSlot THEN [table |-> t, ret |-> FALSE]
        ELSE [table |-> [t EXCEPT ![probe] =
                            [key |-> key, value |-> t[probe].value,
                             occupied |-> TRUE, deleted |-> FALSE]],
              ret |-> TRUE]

\* A plausible slip in insert: the loop starts at slot 0, not at the hash.
insertFromZero(t, key, value) ==
    LET free == {p \in DOMAIN t :
                    ~t[p].occupied \/ t[p].deleted \/ t[p].key = key}
        probe == IF free = {} THEN NoSlot
                 ELSE CHOOSE p \in free : \A q \in free : p <= q
    IN  IF probe = NoSlot THEN [table |-> t, ret |-> FALSE]
        ELSE [table |-> [t EXCEPT ![probe] =
                            [key |-> key, value |-> value,
                             occupied |-> TRUE, deleted |-> FALSE]],
              ret |-> TRUE]

\* A plausible slip in insert: the last slot of the probe sequence is never
\* tried (i < Capacity - 1).
insertOneShort(t, key, value) ==
    LET probe == insertProbe(t, key, 0)
        last == (hashFunction(t, key) + CapacityOf(t) - 1) % CapacityOf(t)
    IN  IF probe = NoSlot \/ probe = last THEN [table |-> t, ret |-> FALSE]
        ELSE [table |-> [t EXCEPT ![probe] =
                            [key |-> key, value |-> value,
                             occupied |-> TRUE, deleted |-> FALSE]],
              ret |-> TRUE]

\* bool insert(key, value): the new table and the result.
insert(t, key, value) ==
    LET probe == insertProbe(t, key, 0)
    IN  IF probe = NoSlot THEN [table |-> t, ret |-> FALSE]
        ELSE [table |-> [t EXCEPT ![probe] =
                            [key |-> key, value |-> value,
                             occupied |-> TRUE, deleted |-> FALSE]],
              ret |-> TRUE]

\* A plausible slip in find: the probe stops at the first slot that is not a
\* live entry of another key, so a tombstone ends the chain.
findStopsAtTombstone(t, key) ==
    LET first == hashFunction(t, key)
        stops(p) == ~t[p].occupied \/ t[p].deleted \/ t[p].key = key
        reach == {i \in 0..(CapacityOf(t) - 1) :
                     /\ stops((first + i) % CapacityOf(t))
                     /\ \A j \in 0..(i - 1) : ~stops((first + j) % CapacityOf(t))}
    IN  IF reach = {} THEN NoSlot
        ELSE LET probe == (first + (CHOOSE i \in reach : TRUE)) % CapacityOf(t)
             IN  IF t[probe].occupied /\ ~t[probe].deleted THEN probe
                 ELSE NoSlot

\* The loop of find: the first slot in probe order, over all Capacity slots,
\* that is occupied, not deleted and holds key.
RECURSIVE findProbe(_, _, _)
findProbe(t, key, i) ==
    IF i >= CapacityOf(t) THEN NoSlot
    ELSE LET probe == (hashFunction(t, key) + i) % CapacityOf(t)
         IN  IF t[probe].occupied /\ ~t[probe].deleted /\ t[probe].key = key
             THEN probe
             ELSE findProbe(t, key, i + 1)

\* const Value* find(key): the slot whose value is pointed to, or NoSlot.
find(t, key) == findProbe(t, key, 0)

\* The loop of remove: the same test as find's.
RECURSIVE removeProbe(_, _, _)
removeProbe(t, key, i) ==
    IF i >= CapacityOf(t) THEN NoSlot
    ELSE LET probe == (hashFunction(t, key) + i) % CapacityOf(t)
         IN  IF t[probe].occupied /\ ~t[probe].deleted /\ t[probe].key = key
             THEN probe
             ELSE removeProbe(t, key, i + 1)

\* A plausible slip in remove: the slot is cleared instead of tombstoned.
removeClearsSlot(t, key) ==
    LET probe == removeProbe(t, key, 0)
    IN  IF probe = NoSlot THEN [table |-> t, ret |-> FALSE]
        ELSE [table |-> [t EXCEPT ![probe] = Entry], ret |-> TRUE]

\* bool remove(key): the new table and the result.
remove(t, key) ==
    LET probe == removeProbe(t, key, 0)
    IN  IF probe = NoSlot THEN [table |-> t, ret |-> FALSE]
        ELSE [table |-> [t EXCEPT ![probe] =
                            [key |-> DefaultKey, value |-> DefaultValue,
                             occupied |-> TRUE, deleted |-> TRUE]],
              ret |-> TRUE]

\* size_t getSize()
getSize(t) == Cardinality({i \in DOMAIN t : t[i].occupied /\ ~t[i].deleted})

\* bool isEmpty()
isEmpty(t) == getSize(t) = 0

\* A plausible slip in skipInvalid: tombstoned slots are not skipped.
RECURSIVE skipInvalidKeepsDeleted(_, _)
skipInvalidKeepsDeleted(t, index) ==
    IF index < CapacityOf(t) /\ ~t[index].occupied
    THEN skipInvalidKeepsDeleted(t, index + 1)
    ELSE index

\* Iterator::skipInvalid: the first index >= index that is the end or an
\* occupied, not deleted slot.
RECURSIVE skipInvalid(_, _)
skipInvalid(t, index) ==
    IF index < CapacityOf(t) /\ (~t[index].occupied \/ t[index].deleted)
    THEN skipInvalid(t, index + 1)
    ELSE index

\* begin() and end(): an iterator is its index.
begin(t) == skipInvalid(t, 0)
end(t) == skipInvalid(t, CapacityOf(t))

\* for (it = begin(); it != end(); ++it): the slots visited, in order.
RECURSIVE iterateFrom(_, _)
iterateFrom(t, it) ==
    IF it /= end(t)
    THEN <<it>> \o iterateFrom(t, skipInvalid(t, it + 1))
    ELSE <<>>

\* The keys a range-for over the table yields (entry.key of each step).
iterationKeys(t) ==
    LET slots == iterateFrom(t, begin(t))
    IN  [n \in 1..Len(slots) |-> t[slots[n]].key]

(***************************************************************************)
(* WidgetRegistry and WidgetPool: each call on the store's table, with its *)
(* result ("void" for a method that returns nothing).                      *)
(***************************************************************************)
\* How a bool result is written.
Bool(b) == IF b THEN "true" ELSE "false"

\* void WidgetRegistry::registerWidget(key, value)
registerWidget(t, key, value) == [table |-> insert(t, key, value).table, ret |-> "void"]

\* Attributes* WidgetRegistry::getAttribute(key): result ? *result : nullptr
getAttribute(t, key) ==
    LET result == find(t, key)
    IN  IF result /= NoSlot THEN t[result].value ELSE NullPtr

\* void WidgetRegistry::removeWidget(key)
registryRemoveWidget(t, key) == [table |-> remove(t, key).table, ret |-> "void"]

\* bool WidgetRegistry::isEmpty()
registryIsEmpty(t) == isEmpty(t)

\* A plausible slip in addWidget: a type that is already mapped is left alone
\* (insert-if-absent) instead of overwritten.
addWidgetKeepsExisting(t, key, value) ==
    IF find(t, key) /= NoSlot THEN [table |-> t, ret |-> "void"]
    ELSE [table |-> insert(t, key, value).table, ret |-> "void"]

\* void WidgetPool::addWidget(key, value)
addWidget(t, key, value) == [table |-> insert(t, key, value).table, ret |-> "void"]

\* Widget* WidgetPool::getWidget(key): result ? *result : nullptr
getWidget(t, key) ==
    LET result == find(t, key)
    IN  IF result /= NoSlot THEN t[result].value ELSE NullPtr

\* bool WidgetPool::removeWidget(key)
poolRemoveWidget(t, key) ==
    LET r == remove(t, key) IN [table |-> r.table, ret |-> Bool(r.ret)]

\* bool WidgetPool::isEmpty()
poolIsEmpty(t) == isEmpty(t)

(***************************************************************************)
(* Screen and WidgetBuilder: setServices.                                  *)
(***************************************************************************)
\* A plausible slip in setServices: || where && is meant.
setServicesEitherPointer(widgetRegistry, widgetPool) ==
    [services |-> [widgetRegistry |-> widgetRegistry, widgetPool |-> widgetPool],
     state |-> IF widgetRegistry /= NullPtr \/ widgetPool /= NullPtr
               THEN "SERVICES_SET" ELSE "ERROR_SERVICES"]

\* void Screen::setServices(widgetRegistry, widgetPool): the pointers stored
\* and the new state.
screenSetServices(widgetRegistry, widgetPool) ==
    [services |-> [widgetRegistry |-> widgetRegistry, widgetPool |-> widgetPool],
     state |-> IF widgetRegistry /= NullPtr /\ widgetPool /= NullPtr
               THEN "SERVICES_SET" ELSE "ERROR_SERVICES"]

\* void WidgetBuilder::setServices(widgetRegistry, widgetPool)
builderSetServices(widgetRegistry, widgetPool) ==
    [services |-> [widgetRegistry |-> widgetRegistry, widgetPool |-> widgetPool],
     state |-> IF widgetRegistry /= NullPtr /\ widgetPool /= NullPtr
               THEN "SERVICES_SET" ELSE "ERROR_SERVICES"]

(***************************************************************************)
(* Utils::Math: the scaling helpers of the resolve-geometry step.  The     *)
(* display is a TFT_HX8357D.                                               *)
(***************************************************************************)
\* Driver::horizontalRes and Driver::verticalRes, in pixels.
horizontalRes == 480
verticalRes == 320

RECURSIVE pow2(_)
pow2(n) == IF n = 0 THEN 1 ELSE 2 * pow2(n - 1)

\* The largest j with 2^j <= n, for n >= 1.
RECURSIVE floorLog2(_)
floorLog2(n) == IF n < 2 THEN 0 ELSE 1 + floorLog2(n \div 2)

\* The conversion of an int to int16_t.
int16(n) == ((n + 32768) % 65536) - 32768

\* Boundary Utils::Math::convertArea(width, height)
convertArea(width, height) ==
    [x1 |-> 0, y1 |-> 0, x2 |-> int16(width - 1), y2 |-> int16(height - 1)]

\* The binary exponent k of the float percent / 100.0f, 0 < percent <= 100:
\* the float is m * 2^-k with 2^23 <= m <= 2^24.
RECURSIVE scaleExponent(_, _)
scaleExponent(percent, k) ==
    IF percent * pow2(k) >= 100 * pow2(23) THEN k
    ELSE scaleExponent(percent, k + 1)

\* Its 24-bit significand: percent * 2^k / 100 rounded to nearest, ties to
\* even.
scaleSignificand(percent, k) ==
    LET n == percent * pow2(k)
        q == n \div 100
        r == n % 100
    IN  IF r > 50 \/ (r = 50 /\ q % 2 = 1) THEN q + 1 ELSE q

\* The float product (m * 2^-k) * d of a float with 24-bit significand m
\* and of an integer 0 <= d <= 32768, rounded to float and truncated to an
\* integer.  The exact product is held in two 12-bit limbs so that no
\* intermediate exceeds 31 bits.  Its truncation differs from the result
\* exactly when the product rounds up to the next integer.
truncatedProduct(m, k, d) ==
    LET A == (m \div 4096) * d
        B == (m % 4096) * d
        T == A + (B \div 4096)
        whole == T \div pow2(k - 12)
        rest == (T % pow2(k - 12)) * 4096 + (B % 4096)
        j == IF whole = 0 THEN -1 ELSE floorLog2(whole)
        roundsUp == /\ k + j - 24 >= 0
                    /\ pow2(k) - rest <= pow2(k + j - 24)
    IN  IF roundsUp THEN whole + 1 ELSE whole

\* int16_t Utils::Math::dimensionScaling(percent, dimension), for
\* 0 <= percent <= 100: the float (percent / 100.0f) times dimension,
\* converted to int16_t.  Float arithmetic is symmetric in the sign, so the
\* magnitude is computed from |dimension|.
dimensionScaling(percent, dimension) ==
    IF percent = 0 \/ dimension = 0 THEN 0
    ELSE
    LET d == IF dimension < 0 THEN -dimension ELSE dimension
        k == scaleExponent(percent, 23)
        magnitude == truncatedProduct(scaleSignificand(percent, k), k, d)
    IN  int16(IF dimension < 0 THEN -magnitude ELSE magnitude)

\* A number below 2^48 as <<hi, lo>>, its value hi * 2^24 + lo, lo < 2^24.
\* The square of S < 2^24:
squareHiLo(S) ==
    LET a == S \div 4096
        b == S % 4096
        cross == 2 * a * b
        low == (cross % 4096) * 4096 + b * b
    IN  <<a * a + (cross \div 4096) + (low \div 16777216), low % 16777216>>

\* <<hi, lo>> plus n, n < 2^24.
plusHiLo(x, n) ==
    <<x[1] + ((x[2] + n) \div 16777216), (x[2] + n) % 16777216>>

\* x <= y on such pairs.
leqHiLo(x, y) == x[1] < y[1] \/ (x[1] = y[1] /\ x[2] <= y[2])

\* The radicand of std::sqrt(m * 2^-k) scaled to an integer of 47 or 48
\* bits: m * 2^23 if k is odd, m * 2^24 if k is even.
radicand(m, k) ==
    IF k % 2 = 1 THEN <<m \div 2, (m % 2) * 8388608>> ELSE <<m, 0>>

\* The largest S in lo..hi whose square is at most the radicand N (lo's
\* is).
RECURSIVE floorRoot(_, _, _)
floorRoot(N, lo, hi) ==
    IF lo = hi THEN lo
    ELSE LET mid == (lo + hi + 1) \div 2
         IN  IF leqHiLo(squareHiLo(mid), N) THEN floorRoot(N, mid, hi)
             ELSE floorRoot(N, lo, mid - 1)

\* The binary exponent of the float std::sqrt(m * 2^-k), as scaleExponent.
sqrtExponent(k) == IF k % 2 = 1 THEN (k + 23) \div 2 ELSE (k + 24) \div 2

\* Its 24-bit significand: the square root of the radicand, rounded to
\* nearest (S + 1 when (S + 1/2)^2 < N, i.e. S^2 + S + 1 <= N).
sqrtSignificand(m, k) ==
    LET N == radicand(m, k)
        S == floorRoot(N, 4096, 16777215)
    IN  IF leqHiLo(plusHiLo(squareHiLo(S), S + 1), N) THEN S + 1 ELSE S

\* The float std::sqrt(percent / 100.0f) for each percent in 1..100, as
\* <<significand, exponent>>.
sqrtScale ==
    [percent \in 1..100 |->
        LET k == scaleExponent(percent, 23)
        IN  <<sqrtSignificand(scaleSignificand(percent, k), k), sqrtExponent(k)>>]

\* int16_t Utils::Math::areaScaling(percent, dimension), for
\* 0 <= percent <= 100: the float std::sqrt(percent / 100.0f) times
\* dimension, converted to int16_t.
areaScaling(percent, dimension) ==
    IF percent = 0 \/ dimension = 0 THEN 0
    ELSE
    LET d == IF dimension < 0 THEN -dimension ELSE dimension
        magnitude == truncatedProduct(sqrtScale[percent][1],
                                      sqrtScale[percent][2], d)
    IN  int16(IF dimension < 0 THEN -magnitude ELSE magnitude)

(***************************************************************************)
(* Utils::Widget::Attributes and Widget: the objects the stores point to.  *)
(* A non-null pointer stored under a Type points to the object of that     *)
(* Type: attributes[type] in the registry, widgets[type] in the pool.      *)
(***************************************************************************)
\* enum class Color
ColorDEFAULT == 0
ColorBLACK == 0
ColorWHITE == 65535
ColorRED == 63488

SizingModes == {"ABSOLUTE", "AREA_PERCENT", "DIMENSION_PERCENT"}

\* struct Boundary, as constructed.
Boundary == [x1 |-> 0, y1 |-> 0, x2 |-> 0, y2 |-> 0]

\* struct Graph.  The members of union Data have no initialiser that runs;
\* the objects have static storage, which is zero-initialised.
Graph ==
    [originColor |-> ColorDEFAULT, originThickness |-> 0,
     gridlineColor |-> ColorDEFAULT, gridlineThickness |-> 0,
     xDivisionQty |-> 0, yDivisionQty |-> 0,
     xOriginIndex |-> 0, yOriginIndex |-> 0]

\* struct Attributes, as constructed: the members the state machines read.
Attributes ==
    [isCustom |-> FALSE, type |-> TypeDEFAULT,
     spacing |-> [margin |-> 0, padding |-> 0],
     background |-> [backgroundColor |-> ColorDEFAULT, backgroundOpacity |-> 0],
     border |-> [borderWidth |-> 0, borderColor |-> ColorDEFAULT,
                 borderOpacity |-> 0, borderSide |-> "LV_BORDER_SIDE_FULL"],
     outline |-> [outlineWidth |-> 0, outlineColor |-> ColorDEFAULT,
                  outlineOpacity |-> 0],
     geometry |-> [mode |-> "ABSOLUTE", width |-> 0, height |-> 0,
                   percentSize |-> 0, boundary |-> Boundary],
     text |-> [font |-> NullPtr, textColor |-> ColorDEFAULT,
               textOpacity |-> 255, letterSpacing |-> 0, lineSpacing |-> 0,
               textAlign |-> "LV_TEXT_ALIGN_AUTO",
               textDecor |-> "LV_TEXT_DECOR_NONE"],
     label |-> [text |-> NullPtr, recolor |-> FALSE],
     behavior |-> [clickable |-> FALSE, scrollable |-> FALSE,
                   focusable |-> FALSE],
     data |-> [graph |-> Graph]]

\* UI::Definitions::Widgets::graticules after setGraticules().
setGraticules ==
    [Attributes EXCEPT
        !.isCustom = TRUE, !.type = TypeGRAPH,
        !.geometry.mode = "AREA_PERCENT", !.geometry.percentSize = 70,
        !.data.graph = [originColor |-> ColorRED, originThickness |-> 2,
                        gridlineColor |-> ColorBLACK, gridlineThickness |-> 1,
                        xDivisionQty |-> 10, yDivisionQty |-> 8,
                        xOriginIndex |-> 5, yOriginIndex |-> 4]]

\* UI::Definitions::Widgets::label after setLabel().
setLabel ==
    [Attributes EXCEPT
        !.type = TypeLABEL,
        !.geometry.width = 150, !.geometry.height = 25,
        !.label.text = 1,
        !.text.textColor = ColorBLACK, !.text.letterSpacing = 5,
        !.text.lineSpacing = 10,
        !.background = [backgroundColor |-> ColorWHITE, backgroundOpacity |-> 255],
        !.border = [borderWidth |-> 2, borderColor |-> ColorBLACK,
                    borderOpacity |-> 255, borderSide |-> "LV_BORDER_SIDE_FULL"]]

\* class Widget, as constructed, and the two instances of
\* UI::Instances::Widgets: graticules has its draw callback set, label has
\* none.
Widget == [lvgl_object_pointer |-> NullPtr, callback |-> NullPtr]
setDrawEvent == [Widget EXCEPT !.callback = 1]

\* lv_obj_t* Utils::LVGL::createWidget(type, parent): the handle of the
\* render object made for type, or null when the renderer cannot allocate
\* one (failed holds the types it fails for).  Handles of different calls
\* for one type are not told apart.
createWidget(type, failed) == IF type \in failed THEN NullPtr ELSE type + 1

(***************************************************************************)
(* Screen: setRegistry, setWidgets, drawWidgets.  A handler is an operator *)
(* from the state it is called in to the set of its outcomes; the set has  *)
(* one element unless the handler dereferences a null pointer.             *)
(***************************************************************************)
ScreenStates ==
    {"UNINITIALIZED", "SERVICES_SET", "ERROR_SERVICES", "WIDGETS_REGISTERED",
     "ERROR_REGISTRATION", "ATTRIBUTES_SET", "ERROR_ATTRIBUTES", "COMPLETE"}

\* The outcomes of a handler that has dereferenced a null pointer, with o
\* what it had done by then: the program traps, or the handler runs on over
\* whatever it reads and ends in one of the states it assigns on return.
undefinedBehaviour(o, finals) ==
    {[o EXCEPT !.undefined = "trapped"]}
    \cup {[o EXCEPT !.state = f, !.undefined = "ran on"] : f \in finals}

\* A plausible slip in setRegistry's loop: the boundary is stored for every
\* record, custom or not.
setRegistryEntryAnyBoundary(a) ==
    LET mode == a.geometry.mode
        width == CASE mode = "AREA_PERCENT" ->
                        areaScaling(a.geometry.percentSize, horizontalRes)
                   [] mode = "DIMENSION_PERCENT" ->
                        dimensionScaling(a.geometry.percentSize, horizontalRes)
                   [] OTHER -> a.geometry.width
        height == CASE mode = "AREA_PERCENT" ->
                        areaScaling(a.geometry.percentSize, verticalRes)
                    [] mode = "DIMENSION_PERCENT" ->
                        dimensionScaling(a.geometry.percentSize, verticalRes)
                    [] OTHER -> a.geometry.height
    IN  [a EXCEPT !.geometry.width = width, !.geometry.height = height,
                  !.geometry.boundary = convertArea(width, height)]

\* The body of setRegistry's loop for one non-null record.
setRegistryEntry(a) ==
    LET mode == a.geometry.mode
        width == CASE mode = "AREA_PERCENT" ->
                        areaScaling(a.geometry.percentSize, horizontalRes)
                   [] mode = "DIMENSION_PERCENT" ->
                        dimensionScaling(a.geometry.percentSize, horizontalRes)
                   [] OTHER -> a.geometry.width
        height == CASE mode = "AREA_PERCENT" ->
                        areaScaling(a.geometry.percentSize, verticalRes)
                    [] mode = "DIMENSION_PERCENT" ->
                        dimensionScaling(a.geometry.percentSize, verticalRes)
                    [] OTHER -> a.geometry.height
        sized == IF mode \in {"AREA_PERCENT", "DIMENSION_PERCENT"}
                 THEN [a EXCEPT !.geometry.width = width,
                                !.geometry.height = height]
                 ELSE a
    IN  IF a.isCustom
        THEN [sized EXCEPT !.geometry.boundary = convertArea(width, height)]
        ELSE sized

\* A plausible slip in setRegistry's loop: continue where the error is to
\* be raised, so that an entry with a null pointer is passed over.
RECURSIVE setRegistrySkipsNull(_, _, _, _)
setRegistrySkipsNull(reg, slots, n, attrs) ==
    IF n > Len(slots) THEN [errorRegistration |-> FALSE, attributes |-> attrs]
    ELSE LET entry == reg[slots[n]]
         IN  setRegistrySkipsNull(reg, slots, n + 1,
                 IF entry.value = NullPtr THEN attrs
                 ELSE [attrs EXCEPT ![entry.key] = setRegistryEntry(attrs[entry.key])])

\* setRegistry's loop from the n-th visited slot on: whether it broke off
\* on a null pointer, and the Attributes objects it leaves.
RECURSIVE setRegistryLoop(_, _, _, _)
setRegistryLoop(reg, slots, n, attrs) ==
    IF n > Len(slots) THEN [errorRegistration |-> FALSE, attributes |-> attrs]
    ELSE LET entry == reg[slots[n]]
         IN  IF entry.value = NullPtr
             THEN [errorRegistration |-> TRUE, attributes |-> attrs]
             ELSE setRegistryLoop(reg, slots, n + 1,
                      [attrs EXCEPT ![entry.key] = setRegistryEntry(attrs[entry.key])])

\* A plausible slip in setRegistry: on a null pointer the records resolved
\* so far are put back as they were.
setRegistryRollsBack(state, services, reg, attrs) ==
    LET o == [state |-> state, attributes |-> attrs, undefined |-> "no"]
    IN  IF services.widgetRegistry = NullPtr
        THEN undefinedBehaviour(o, {"ERROR_REGISTRATION", "WIDGETS_REGISTERED"})
        ELSE LET r == setRegistryLoop(reg, iterateFrom(reg, begin(reg)), 1, attrs)
             IN  IF r.errorRegistration
                 THEN {[o EXCEPT !.state = "ERROR_REGISTRATION"]}
                 ELSE {[o EXCEPT !.attributes = r.attributes,
                                 !.state = "WIDGETS_REGISTERED"]}

\* void Screen::setRegistry(), called in state with the stored service
\* pointers, the registry's table and the Attributes objects.
screenSetRegistry(state, services, reg, attrs) ==
    LET o == [state |-> state, attributes |-> attrs, undefined |-> "no"]
    IN  IF services.widgetRegistry = NullPtr
        THEN undefinedBehaviour(o, {"ERROR_REGISTRATION", "WIDGETS_REGISTERED"})
        ELSE LET r == setRegistryLoop(reg, iterateFrom(reg, begin(reg)), 1, attrs)
             IN  {[o EXCEPT !.attributes = r.attributes,
                            !.state = IF r.errorRegistration
                                      THEN "ERROR_REGISTRATION"
                                      ELSE "WIDGETS_REGISTERED"]}

\* A plausible slip in setWidgets: the border group is applied without
\* looking at its fields.
styleGroupsAlwaysBorder(a) ==
    (IF a.spacing.padding /= 0 \/ a.spacing.margin /= 0
     THEN <<"spacing">> ELSE <<>>)
    \o <<"position">>
    \o (IF a.background.backgroundColor /= ColorDEFAULT
           \/ a.background.backgroundOpacity /= 0
        THEN <<"background">> ELSE <<>>)
    \o <<"border">>
    \o (IF a.outline.outlineWidth /= 0 \/ a.outline.outlineOpacity /= 0
           \/ a.outline.outlineColor /= ColorDEFAULT
        THEN <<"outline">> ELSE <<>>)
    \o <<"size">>
    \o (IF a.text.font /= NullPtr \/ a.text.textColor /= ColorDEFAULT
           \/ a.text.letterSpacing /= 0 \/ a.text.lineSpacing /= 0
        THEN <<"text">> ELSE <<>>)
    \o (IF a.label.text /= NullPtr THEN <<"label">> ELSE <<>>)
    \o (IF a.behavior.clickable \/ a.behavior.scrollable \/ a.behavior.focusable
        THEN <<"behavior">> ELSE <<>>)

\* The style groups setWidgets applies to the render object of a record, in
\* the order it applies them: position and size always, each other group
\* only when one of its fields differs from its default.
styleGroups(a) ==
    (IF a.spacing.padding /= 0 \/ a.spacing.margin /= 0
     THEN <<"spacing">> ELSE <<>>)
    \o <<"position">>
    \o (IF a.background.backgroundColor /= ColorDEFAULT
           \/ a.background.backgroundOpacity /= 0
        THEN <<"background">> ELSE <<>>)
    \o (IF a.border.borderWidth /= 0 \/ a.border.borderOpacity /= 0
           \/ a.border.borderColor /= ColorDEFAULT
        THEN <<"border">> ELSE <<>>)
    \o (IF a.outline.outlineWidth /= 0 \/ a.outline.outlineOpacity /= 0
           \/ a.outline.outlineColor /= ColorDEFAULT
        THEN <<"outline">> ELSE <<>>)
    \o <<"size">>
    \o (IF a.text.font /= NullPtr \/ a.text.textColor /= ColorDEFAULT
           \/ a.text.letterSpacing /= 0 \/ a.text.lineSpacing /= 0
        THEN <<"text">> ELSE <<>>)
    \o (IF a.label.text /= NullPtr THEN <<"label">> ELSE <<>>)
    \o (IF a.behavior.clickable \/ a.behavior.scrollable \/ a.behavior.focusable
        THEN <<"behavior">> ELSE <<>>)

\* setWidgets' loop from the n-th visited pool slot on.  acc holds the flag
\* errorAttributes, the Widget objects, the calls made so far, and whether
\* a null pointer has been dereferenced (nullDeref; the loop then stops).
RECURSIVE setWidgetsLoop(_, _, _, _, _, _, _, _)
setWidgetsLoop(services, reg, pl, attrs, failed, slots, n, acc) ==
    IF n > Len(slots) THEN acc
    ELSE
    LET type == pl[slots[n]].key
        widget == pl[slots[n]].value
        thisWidget == createWidget(type, failed)
        created == Append(acc.calls, [fn |-> "createWidget", type |-> type,
                                      obj |-> thisWidget])
        bound == Append(created, [fn |-> "Widget::setLVGL", type |-> type,
                                  obj |-> thisWidget])
        hooked == IF acc.widgets[type].callback /= NullPtr
                  THEN Append(bound, [fn |-> "lv_obj_add_event_cb",
                                      type |-> type, obj |-> thisWidget])
                  ELSE bound
        set == [acc.widgets EXCEPT ![type].lvgl_object_pointer = thisWidget]
        attribute == getAttribute(reg, type)
    IN  IF thisWidget = NullPtr
        THEN [acc EXCEPT !.errorAttributes = TRUE, !.calls = created]
        ELSE IF widget = NullPtr
        THEN [acc EXCEPT !.nullDeref = TRUE, !.calls = created]
        ELSE IF services.widgetRegistry = NullPtr
        THEN [acc EXCEPT !.nullDeref = TRUE, !.calls = hooked, !.widgets = set]
        ELSE IF attribute = NullPtr
        THEN [acc EXCEPT !.errorAttributes = TRUE, !.calls = hooked,
                         !.widgets = set]
        ELSE setWidgetsLoop(services, reg, pl, attrs, failed, slots, n + 1,
                 [acc EXCEPT !.widgets = set,
                             !.calls = Append(hooked,
                                 [fn |-> "style", type |-> type,
                                  obj |-> thisWidget,
                                  groups |-> styleGroups(attrs[type]),
                                  width |-> attrs[type].geometry.width,
                                  height |-> attrs[type].geometry.height])])

\* void Screen::setWidgets(), called in state; failed holds the types for
\* which the renderer makes no object during this call.
screenSetWidgets(state, services, reg, pl, wdg, attrs, failed) ==
    LET o == [state |-> state, widgets |-> wdg, calls |-> <<>>, undefined |-> "no"]
        finals == {"ERROR_ATTRIBUTES", "ATTRIBUTES_SET"}
    IN  IF services.widgetPool = NullPtr THEN undefinedBehaviour(o, finals)
        ELSE
        LET r == setWidgetsLoop(services, reg, pl, attrs, failed,
                     iterateFrom(pl, begin(pl)), 1,
                     [errorAttributes |-> FALSE, widgets |-> wdg,
                      calls |-> <<>>, nullDeref |-> FALSE])
            done == [o EXCEPT !.widgets = r.widgets, !.calls = r.calls]
        IN  IF r.nullDeref THEN undefinedBehaviour(done, finals)
            ELSE {[done EXCEPT !.state = IF r.errorAttributes
                                          THEN "ERROR_ATTRIBUTES"
                                          ELSE "ATTRIBUTES_SET"]}

\* drawWidgets' loop from the n-th visited pool slot on: the calls made, and
\* whether a null Widget pointer or a null render object was dereferenced.
RECURSIVE drawWidgetsLoop(_, _, _, _, _)
drawWidgetsLoop(pl, wdg, slots, n, acc) ==
    IF n > Len(slots) THEN acc
    ELSE
    LET type == pl[slots[n]].key
        widget == pl[slots[n]].value
    IN  IF widget = NullPtr \/ wdg[type].lvgl_object_pointer = NullPtr
        THEN [acc EXCEPT !.nullDeref = TRUE]
        ELSE drawWidgetsLoop(pl, wdg, slots, n + 1,
                 [acc EXCEPT !.calls = Append(acc.calls,
                     [fn |-> "lv_obj_invalidate", type |-> type,
                      obj |-> wdg[type].lvgl_object_pointer])])

\* A plausible slip in drawWidgets: the iterator is advanced twice per step.
drawWidgetsSkipsEntries(state, services, pl, wdg) ==
    LET o == [state |-> state, calls |-> <<>>, undefined |-> "no"]
    IN  IF services.widgetPool = NullPtr THEN undefinedBehaviour(o, {"COMPLETE"})
        ELSE
        LET all == iterateFrom(pl, begin(pl))
            odd == [n \in 1..((Len(all) + 1) \div 2) |-> all[2 * n - 1]]
            r == drawWidgetsLoop(pl, wdg, odd, 1,
                                 [calls |-> <<>>, nullDeref |-> FALSE])
        IN  IF r.nullDeref
            THEN undefinedBehaviour([o EXCEPT !.calls = r.calls], {"COMPLETE"})
            ELSE {[o EXCEPT !.calls = r.calls, !.state = "COMPLETE"]}

\* void Screen::drawWidgets(), called in state.
screenDrawWidgets(state, services, pl, wdg) ==
    LET o == [state |-> state, calls |-> <<>>, undefined |-> "no"]
    IN  IF services.widgetPool = NullPtr THEN undefinedBehaviour(o, {"COMPLETE"})
        ELSE
        LET r == drawWidgetsLoop(pl, wdg, iterateFrom(pl, begin(pl)), 1,
                                 [calls |-> <<>>, nullDeref |-> FALSE])
        IN  IF r.nullDeref
            THEN undefinedBehaviour([o EXCEPT !.calls = r.calls], {"COMPLETE"})
            ELSE {[o EXCEPT !.calls = r.calls, !.state = "COMPLETE"]}

(***************************************************************************)
(* Graticules: the grid of the GRAPH widget.  A method that divides by     *)
(* zero or leaves its arrays is an operator to the set of its outcomes.    *)
(***************************************************************************)
MAX_GRATICULES == 20

AxisTypes == {"TIME", "VOLTAGE"}

\* GraticulesLineSegment{0, 0, 0, 0}, also a PrivateLineSegment as constructed.
LineSegment == [x1 |-> 0, y1 |-> 0, x2 |-> 0, y2 |-> 0]

\* A Graticules object as constructed.  timeStepSize and voltageStepSize
\* have no initialiser; the program's one instance has static storage and
\* so holds zeros.
Graticules ==
    [privateBoundary |-> [x1 |-> 0, y1 |-> 0, x2 |-> 0, y2 |-> 0],
     originColor |-> ColorDEFAULT, originThickness |-> 0,
     gridlineColor |-> ColorDEFAULT, gridlineThickness |-> 0,
     timeDivisions |-> 0, voltageDivisions |-> 0,
     xOriginIndex |-> 0, yOriginIndex |-> 0,
     timeStepSize |-> 0, voltageStepSize |-> 0,
     Time |-> [i \in 0..(MAX_GRATICULES - 1) |-> LineSegment],
     Voltage |-> [i \in 0..(MAX_GRATICULES - 1) |-> LineSegment]]

\* a / b on ints, b /= 0: the quotient truncated toward zero.
quotient(a, b) ==
    LET abs(n) == IF n < 0 THEN -n ELSE n
    IN  IF (a < 0) = (b < 0) THEN abs(a) \div abs(b) ELSE -(abs(a) \div abs(b))

\* The conversion of an int8_t to uint8_t.
uint8(n) == n % 256

\* void Graticules::setStepSize(), for divisors that are not zero; a zero
\* divisor leaves the step of its axis as it was (configure decides what a
\* division by zero does).
setStepSize(g) ==
    LET timeLength == int16((g.privateBoundary.x2 - g.privateBoundary.x1) + 1)
        voltageLength == int16((g.privateBoundary.y2 - g.privateBoundary.y1) + 1)
    IN  [g EXCEPT
            !.timeStepSize =
                IF g.timeDivisions = 0 THEN @
                ELSE int16(quotient(timeLength, g.timeDivisions)),
            !.voltageStepSize =
                IF g.voltageDivisions = 0 THEN @
                ELSE int16(quotient(voltageLength, g.voltageDivisions))]

\* void Graticules::setLineSegments(): the writes that fall inside the
\* arrays.
setLineSegments(g) ==
    LET b == g.privateBoundary
    IN  [g EXCEPT
            !.Time = [i \in 0..(MAX_GRATICULES - 1) |->
                         IF i < g.timeDivisions
                         THEN LET x == int16(b.x1 + i * g.timeStepSize)
                              IN  [x1 |-> x, y1 |-> b.y1, x2 |-> x, y2 |-> b.y2]
                         ELSE g.Time[i]],
            !.Voltage = [i \in 0..(MAX_GRATICULES - 1) |->
                            IF i < g.voltageDivisions
                            THEN LET y == int16(b.y1 + i * g.voltageStepSize)
                                 IN  [x1 |-> b.x1, y1 |-> y, x2 |-> b.x2, y2 |-> y]
                            ELSE g.Voltage[i]]]

\* The indices at which setLineSegments writes the array of an axis: its
\* loop runs i from 0 while i < the division count.
writtenIndices(g, type) ==
    {i \in 0..127 : i < (IF type = "TIME" THEN g.timeDivisions
                         ELSE g.voltageDivisions)}

\* The values a step size may hold after a division by zero that did not
\* trap.
ZeroDivisionResults == {0, -1}

\* void Graticules::configure(boundary, ..., yOriginIndex) on object g: the
\* outcomes [graticules, undefined].  A zero division count divides by zero
\* in setStepSize; a count above MAX_GRATICULES writes past the arrays in
\* setLineSegments.
configure(g, boundary, originColor, originThickness, gridlineColor, gridlineThickness, timeDivisions, voltageDivisions, xOriginIndex, yOriginIndex) ==
    LET stored == [g EXCEPT
                      !.privateBoundary = boundary,
                      !.originColor = originColor,
                      !.originThickness = originThickness,
                      !.gridlineColor = gridlineColor,
                      !.gridlineThickness = gridlineThickness,
                      !.timeDivisions = timeDivisions,
                      !.voltageDivisions = voltageDivisions,
                      !.xOriginIndex = xOriginIndex,
                      !.yOriginIndex = yOriginIndex]
        stepped == setStepSize(stored)
        overrun == timeDivisions > MAX_GRATICULES
                   \/ voltageDivisions > MAX_GRATICULES
    IN  IF timeDivisions = 0 \/ voltageDivisions = 0
        THEN {[graticules |-> stored, undefined |-> "trapped"]}
             \cup {[graticules |->
                        setLineSegments(
                            [stepped EXCEPT
                                !.timeStepSize =
                                    IF timeDivisions = 0 THEN t ELSE @,
                                !.voltageStepSize =
                                    IF voltageDivisions = 0 THEN v ELSE @]),
                    undefined |-> "ran on"] :
                   t \in ZeroDivisionResults, v \in ZeroDivisionResults}
        ELSE IF overrun
        THEN {[graticules |-> setLineSegments(stepped), undefined |-> u] :
                 u \in {"trapped", "ran on"}}
        ELSE {[graticules |-> setLineSegments(stepped), undefined |-> "no"]}

\* int16_t Graticules::getStepSize(type)
getStepSize(g, type) ==
    IF type = "TIME" THEN g.timeStepSize ELSE g.voltageStepSize

\* int8_t Graticules::getDivisions(type)
getDivisions(g, type) ==
    IF type = "TIME" THEN g.timeDivisions ELSE g.voltageDivisions

\* bool Graticules::isValidIndex(segmentIndex, type)
isValidIndex(g, segmentIndex, type) ==
    LET graticuleCount == uint8(getDivisions(g, type))
    IN  segmentIndex >= 0 /\ segmentIndex < graticuleCount

\* What a read past the arrays may yield.
StraySegments == {LineSegment, [x1 |-> -1, y1 |-> -1, x2 |-> -1, y2 |-> -1]}

\* no array element was read
NoRead == -1

\* GraticulesLineSegment Graticules::getLineSegment(segmentIndex, type):
\* the outcomes [segment, read, undefined], read being the array index the
\* call read, or NoRead.
getLineSegment(g, segmentIndex, type) ==
    IF ~isValidIndex(g, segmentIndex, type)
    THEN {[segment |-> LineSegment, read |-> NoRead, undefined |-> "no"]}
    ELSE IF segmentIndex >= MAX_GRATICULES
    THEN {[segment |-> s, read |-> segmentIndex, undefined |-> "ran on"] :
             s \in StraySegments}
         \cup {[segment |-> LineSegment, read |-> segmentIndex,
                undefined |-> "trapped"]}
    ELSE {[segment |-> IF type = "TIME" THEN g.Time[segmentIndex]
                       ELSE g.Voltage[segmentIndex],
           read |-> segmentIndex, undefined |-> "no"]}

(***************************************************************************)
(* GraticulesRenderer: the draw callback of the graph widget.              *)
(***************************************************************************)
\* A uint8_t loop index passed as int8_t segmentIndex.
int8(n) == ((n + 128) % 256) - 128

\* lv_color_t Utils::Math::convert565(color): the 5-6-5 fields widened to
\* 8 bits each by repeating their top bits.
convert565(color) ==
    LET red == (color \div 2048) % 32
        green == (color \div 32) % 64
        blue == color % 32
    IN  [red |-> ((red * 8) % 256) + (red \div 4),
         green |-> ((green * 4) % 256) + (green \div 16),
         blue |-> ((blue * 8) % 256) + (blue \div 4)]

\* uint16_t Graticules::getColor(type): enum565 of the stored colour.
getColor(g, type) ==
    IF type = "ORIGIN" THEN g.originColor ELSE g.gridlineColor

\* int8_t Graticules::getThickness(type)
getThickness(g, type) ==
    IF type = "ORIGIN" THEN g.originThickness ELSE g.gridlineThickness

\* int8_t Graticules::getAxisIndex(type)
getAxisIndex(g, type) ==
    IF type = "TIME" THEN g.xOriginIndex ELSE g.yOriginIndex

\* initializeLineDescriptor and setLineSegmentCoordinates: the descriptor
\* handed to lv_draw_line.
lineDescriptor(g, isOrigin, lineSegment) ==
    LET type == IF isOrigin THEN "ORIGIN" ELSE "GRIDLINE"
    IN  [color |-> convert565(getColor(g, type)),
         width |-> getThickness(g, type),
         p1 |-> [x |-> lineSegment.x1, y |-> lineSegment.y1],
         p2 |-> [x |-> lineSegment.x2, y |-> lineSegment.y2]]

\* A plausible slip in drawGraticule: isOrigin is never set.
drawGraticuleNoOrigin(g, axisType) ==
    LET divisions == uint8(getDivisions(g, axisType))
        stray == {i \in 0..(divisions - 1) :
                     isValidIndex(g, int8(i), axisType) /\ int8(i) >= MAX_GRATICULES}
        segment(i) ==
            (CHOOSE o \in getLineSegment(g, int8(i), axisType) : TRUE).segment
    IN  IF stray = {}
        THEN {[commands |-> [n \in 1..divisions |->
                                lineDescriptor(g, FALSE, segment(n - 1))],
               undefined |-> "no"]}
        ELSE {[commands |-> <<>>, undefined |-> "trapped"]}

\* drawGraticule(axisType, graticules, layer): the descriptors handed to
\* lv_draw_line, in order.  A read past the arrays stops the program at
\* the first such index, or yields a stray segment at each.
drawGraticule(g, axisType) ==
    LET divisions == uint8(getDivisions(g, axisType))
        axisIndex == getAxisIndex(g, axisType)
        stray == {i \in 0..(divisions - 1) :
                     isValidIndex(g, int8(i), axisType) /\ int8(i) >= MAX_GRATICULES}
        segment(i, s) ==
            IF i \in stray THEN s
            ELSE (CHOOSE o \in getLineSegment(g, int8(i), axisType) : TRUE).segment
        commands(count, s) ==
            [n \in 1..count |->
                lineDescriptor(g, (n - 1) = axisIndex, segment(n - 1, s))]
    IN  IF stray = {}
        THEN {[commands |-> commands(divisions, LineSegment), undefined |-> "no"]}
        ELSE LET first == CHOOSE i \in stray : \A j \in stray : i <= j
             IN  {[commands |-> commands(first, LineSegment),
                   undefined |-> "trapped"]}
                 \cup {[commands |-> commands(divisions, s),
                        undefined |-> "ran on"] : s \in StraySegments}

\* void graticule_draw_event_cb(event): the TIME lines, then the VOLTAGE
\* lines.
graticule_draw_event_cb(g) ==
    {[commands |-> IF t.undefined = "trapped" THEN t.commands
                   ELSE t.commands \o v.commands,
      undefined |-> CASE t.undefined = "trapped" -> "trapped"
                      [] t.undefined = "ran on" /\ v.undefined = "no" -> "ran on"
                      [] OTHER -> v.undefined] :
        t \in drawGraticule(g, "TIME"), v \in drawGraticule(g, "VOLTAGE")}

(***************************************************************************)
(* WidgetBuilder: setWidgets.  The GRAPH instance of the pool is the       *)
(* Graticules object g.                                                    *)
(***************************************************************************)
BuilderStates ==
    {"UNINITIALIZED", "SERVICES_SET", "ERROR_SERVICES", "BUILDING",
     "ERROR_BUILDING", "COMPLETE"}

\* The call graticules->configure(&geometry.boundary, graph.originColor, ...)
\* that setAttribute makes for record a, as logged in calls.
configureCall(a) ==
    [fn |-> "Graticules::configure", type |-> a.type,
     boundary |-> a.geometry.boundary, graph |-> a.data.graph]

\* A plausible slip in setAttribute: the GRAPH case makes no call.
RECURSIVE setAttributeSkipsGraph(_, _, _, _, _, _)
setAttributeSkipsGraph(reg, pl, attrs, slots, n, acc) ==
    IF n > Len(slots) THEN {[acc EXCEPT !.state = "COMPLETE"]}
    ELSE
    LET widgetType == reg[slots[n]].key
        seen == [acc EXCEPT !.visited = Append(@, widgetType)]
    IN  IF reg[slots[n]].value /= NullPtr /\ getWidget(pl, widgetType) /= NullPtr
        THEN setAttributeSkipsGraph(reg, pl, attrs, slots, n + 1, seen)
        ELSE {[seen EXCEPT !.state = "ERROR_BUILDING"]}

\* setAttribute's loop from the n-th visited registry slot on.  acc holds
\* the state, the Graticules object, the calls made, the types of the
\* entries visited and whether a call has left defined behaviour; the set
\* holds one element per way the calls of configure can end.
RECURSIVE setAttributeLoop(_, _, _, _, _, _)
setAttributeLoop(reg, pl, attrs, slots, n, acc) ==
    IF n > Len(slots) THEN {[acc EXCEPT !.state = "COMPLETE"]}
    ELSE
    LET widgetType == reg[slots[n]].key
        widgetAttributes == reg[slots[n]].value
        widgetPointer == getWidget(pl, widgetType)
        seen == [acc EXCEPT !.visited = Append(@, widgetType)]
        a == attrs[widgetType]
        graph == a.data.graph
    IN  IF widgetAttributes /= NullPtr /\ widgetPointer /= NullPtr
        THEN IF widgetType = TypeGRAPH
             THEN UNION {
                    LET called == [seen EXCEPT
                                      !.graticules = c.graticules,
                                      !.calls = Append(@, configureCall(a))]
                    IN  IF c.undefined = "trapped"
                        THEN {[called EXCEPT !.undefined = "trapped"]}
                        ELSE setAttributeLoop(reg, pl, attrs, slots, n + 1,
                                 IF c.undefined = "no" THEN called
                                 ELSE [called EXCEPT !.undefined = "ran on"]) :
                    c \in configure(acc.graticules, a.geometry.boundary,
                                    graph.originColor, graph.originThickness,
                                    graph.gridlineColor, graph.gridlineThickness,
                                    graph.xDivisionQty, graph.yDivisionQty,
                                    graph.xOriginIndex, graph.yOriginIndex)}
             ELSE setAttributeLoop(reg, pl, attrs, slots, n + 1, seen)
        ELSE {[seen EXCEPT !.state = "ERROR_BUILDING"]}

\* void WidgetBuilder::setAttribute(), called in BUILDING.
setAttribute(services, reg, pl, attrs, g) ==
    LET o == [state |-> "BUILDING", graticules |-> g, calls |-> <<>>,
              visited |-> <<>>, undefined |-> "no"]
    IN  IF services.widgetRegistry = NullPtr \/ services.widgetPool = NullPtr
        THEN undefinedBehaviour(o, {"COMPLETE", "ERROR_BUILDING"})
        ELSE setAttributeLoop(reg, pl, attrs, iterateFrom(reg, begin(reg)), 1, o)

\* void WidgetBuilder::setWidgets(), called in state: the while loop run to
\* its end.  SERVICES_SET becomes BUILDING, BUILDING runs setAttribute, whose
\* state stops the loop on the next turn; COMPLETE and ERROR_BUILDING stop
\* it at once; any other state becomes ERROR_BUILDING.
builderSetWidgets(state, services, reg, pl, attrs, g) ==
    LET o == [state |-> state, graticules |-> g, calls |-> <<>>,
              visited |-> <<>>, undefined |-> "no"]
    IN  CASE state \in {"SERVICES_SET", "BUILDING"} ->
                 setAttribute(services, reg, pl, attrs, g)
          [] state \in {"COMPLETE", "ERROR_BUILDING"} -> {o}
          [] OTHER -> {[o EXCEPT !.state = "ERROR_BUILDING"]}

(***************************************************************************)
(* The state after construction.                                           *)
(***************************************************************************)
NoOp == [op |-> "none", widgetRegistry |-> NullPtr, widgetPool |-> NullPtr,
         from |-> "UNINITIALIZED"]

\* Both state machines as constructed: UNINITIALIZED, null service pointers.
\* No null pointer has been dereferenced.
MachinesInit ==
    /\ screenState = "UNINITIALIZED"
    /\ screenServices = [widgetRegistry |-> NullPtr, widgetPool |-> NullPtr]
    /\ builderState = "UNINITIALIZED"
    /\ builderServices = [widgetRegistry |-> NullPtr, widgetPool |-> NullPtr]
    /\ lastOp = NoOp
    /\ pc = "none"

\* Both stores as constructed: empty tables of MAX_WIDGETS slots.
StoresInit ==
    /\ registry = HashTable(MAX_WIDGETS)
    /\ pool = HashTable(MAX_WIDGETS)
    /\ regMap = [ty \in Types |-> {}]
    /\ poolMap = [ty \in Types |-> {}]

\* The generic table as constructed.
TableInit ==
    /\ table = HashTable(Capacity)
    /\ lastIns = [k \in Keys |-> {}]
    /\ log = <<>>

\* A specification that exercises the generic table alone has no stores, and
\* one that exercises the stores has no generic table.
NoStores ==
    /\ registry = <<>>
    /\ pool = <<>>
    /\ regMap = <<>>
    /\ poolMap = <<>>

NoTable ==
    /\ table = <<>>
    /\ lastIns = <<>>
    /\ log = <<>>

\* A specification that does not drive the widgets has no widget objects.
NoObjects ==
    /\ attributes = <<>>
    /\ widgets = <<>>
    /\ calls = <<>>
    /\ undefined = "no"
    /\ graticules = <<>>

Init == TableInit /\ NoStores /\ MachinesInit /\ NoObjects

storeVars == <<registry, pool, regMap, poolMap>>
machineVars == <<screenState, screenServices, builderState, builderServices,
                 lastOp, pc>>
tableVars == <<table, lastIns, log>>
objectVars == <<attributes, widgets, calls, undefined, graticules>>

(***************************************************************************)
(* Spec: any sequence of insert and remove calls on one table.             *)
(***************************************************************************)
\* table.insert(key, value)
Insert(key, value) ==
    LET r == insert(table, key, value)
    IN  /\ table' = r.table
        /\ lastIns' = [lastIns EXCEPT ![key] = IF r.ret THEN {value} ELSE {}]
        /\ UNCHANGED <<storeVars, machineVars, objectVars>>

\* table.remove(key)
Remove(key) ==
    LET r == remove(table, key)
    IN  /\ table' = r.table
        /\ lastIns' = [lastIns EXCEPT ![key] = {}]
        /\ UNCHANGED <<storeVars, machineVars, log, objectVars>>

InsertAny == \E key \in Keys, value \in Values : Insert(key, value) /\ UNCHANGED log

RemoveAny == \E key \in Keys : Remove(key)

Next == InsertAny \/ RemoveAny

Spec == Init /\ [][Next]_vars

(***************************************************************************)
(* SpecCapacity: inserts of distinct keys into a table that starts empty,  *)
(* up to Capacity + 1 of them.                                             *)
(***************************************************************************)
\* The elements of a sequence, as a set.
Range(s) == {s[n] : n \in 1..Len(s)}

InsertFresh ==
    \E key \in Keys \ Range(log), value \in Values :
        /\ Len(log) <= Capacity
        /\ Insert(key, value)
        /\ log' = Append(log, key)

NextCapacity == InsertFresh

SpecCapacity == Init /\ [][NextCapacity]_vars

(***************************************************************************)
(* SpecStores: any sequence of add/register and remove calls on the two    *)
(* stores, keyed by the three Type enumerators.                            *)
(***************************************************************************)
RegisterWidget ==
    \E key \in Types, value \in Ptrs :
        /\ registry' = registerWidget(registry, key, value).table
        /\ regMap' = [regMap EXCEPT ![key] = {value}]
        /\ UNCHANGED <<pool, poolMap, tableVars, machineVars, objectVars>>

RegistryRemoveWidget ==
    \E key \in Types :
        /\ registry' = registryRemoveWidget(registry, key).table
        /\ regMap' = [regMap EXCEPT ![key] = {}]
        /\ UNCHANGED <<pool, poolMap, tableVars, machineVars, objectVars>>

AddWidget ==
    \E key \in Types, value \in Ptrs :
        /\ pool' = addWidget(pool, key, value).table
        /\ poolMap' = [poolMap EXCEPT ![key] = {value}]
        /\ UNCHANGED <<registry, regMap, tableVars, machineVars, objectVars>>

PoolRemoveWidget ==
    \E key \in Types :
        /\ pool' = poolRemoveWidget(pool, key).table
        /\ poolMap' = [poolMap EXCEPT ![key] = {}]
        /\ UNCHANGED <<registry, regMap, tableVars, machineVars, objectVars>>

NextStores == RegisterWidget \/ RegistryRemoveWidget \/ AddWidget \/ PoolRemoveWidget

InitStores == NoTable /\ StoresInit /\ MachinesInit /\ NoObjects

SpecStores == InitStores /\ [][NextStores]_vars

(***************************************************************************)
(* SpecSetup: the stores are populated once at startup (registerWidgets,   *)
(* addWidgets), then the state machines are driven.                        *)
(***************************************************************************)
\* The pointers a populated store holds: null, or the address of the one
\* object defined for the type.
SetupPtrs == {NullPtr, 1}

\* A store after the startup calls add(type, m[type]) for each type that m
\* maps (m[type] = {} for a type that is not added).
populated(m) ==
    LET put(t, ty) == IF m[ty] = {} THEN t
                      ELSE insert(t, ty, CHOOSE p \in m[ty] : TRUE).table
    IN  put(put(put(HashTable(MAX_WIDGETS), TypeGRAPH), TypeLABEL), TypeDEFAULT)

SetupMaps == [Types -> {{}} \cup {{p} : p \in SetupPtrs}]

InitSetup ==
    /\ NoTable
    /\ MachinesInit
    /\ NoObjects
    /\ \E m \in SetupMaps : regMap = m /\ registry = populated(m)
    /\ \E m \in SetupMaps : poolMap = m /\ pool = populated(m)

\* The pointer arguments of setServices: null or the singleton's address.
ServicePtrs == {NullPtr, 1}

\* screen.setServices(r, p), in any state.
ScreenSetServicesCall(r, p) ==
    LET s == screenSetServices(r, p)
    IN  /\ undefined /= "trapped"
        /\ screenServices' = s.services
        /\ screenState' = s.state
        /\ UNCHANGED <<builderState, builderServices, storeVars, tableVars,
                       objectVars, pc>>

\* builder.setServices(r, p), in any state.
BuilderSetServicesCall(r, p) ==
    LET s == builderSetServices(r, p)
    IN  /\ undefined /= "trapped"
        /\ builderServices' = s.services
        /\ builderState' = s.state
        /\ UNCHANGED <<screenState, screenServices, storeVars, tableVars,
                       objectVars, pc>>

\* The two calls with any arguments, logged in lastOp.
ScreenSetServices ==
    \E r \in ServicePtrs, p \in ServicePtrs :
        /\ ScreenSetServicesCall(r, p)
        /\ lastOp' = [op |-> "Screen::setServices", widgetRegistry |-> r,
                      widgetPool |-> p, from |-> screenState]

BuilderSetServices ==
    \E r \in ServicePtrs, p \in ServicePtrs :
        /\ BuilderSetServicesCall(r, p)
        /\ lastOp' = [op |-> "WidgetBuilder::setServices", widgetRegistry |-> r,
                      widgetPool |-> p, from |-> builderState]

NextSetup == ScreenSetServices \/ BuilderSetServices

SpecSetup == InitSetup /\ [][NextSetup]_vars

(***************************************************************************)
(* SpecScreen: the stores are populated once at startup, then the four     *)
(* methods of Screen are called in any order, with any arguments.          *)
(***************************************************************************)
\* A record a client defines for Type::DEFAULT: a custom widget sized as a
\* percentage of each screen dimension (the two records of
\* UI::Definitions::Widgets use the other two sizing modes).
setDefault ==
    [Attributes EXCEPT !.isCustom = TRUE,
                       !.geometry.mode = "DIMENSION_PERCENT",
                       !.geometry.percentSize = 21]

\* The objects of UI::Definitions::Widgets and UI::Instances::Widgets once
\* registerWidgets and addWidgets have run.
InitObjects ==
    /\ attributes = [ty \in Types |->
                        CASE ty = TypeGRAPH -> setGraticules
                          [] ty = TypeLABEL -> setLabel
                          [] OTHER -> setDefault]
    /\ widgets = [ty \in Types |->
                     IF ty = TypeGRAPH THEN setDrawEvent ELSE Widget]
    /\ calls = <<>>
    /\ undefined = "no"
    /\ graticules = Graticules

InitScreen ==
    /\ NoTable
    /\ MachinesInit
    /\ \E m \in SetupMaps : regMap = m /\ registry = populated(m)
    /\ \E m \in SetupMaps : poolMap = m /\ pool = populated(m)
    /\ InitObjects

\* screen.setServices with any arguments.
ScreenSetServicesAny ==
    \E r \in ServicePtrs, p \in ServicePtrs :
        ScreenSetServicesCall(r, p) /\ UNCHANGED lastOp

\* screen.setRegistry(), in any state.
ScreenSetRegistry ==
    /\ undefined /= "trapped"
    /\ \E o \in screenSetRegistry(screenState, screenServices, registry, attributes) :
           /\ screenState' = o.state
           /\ attributes' = o.attributes
           /\ undefined' = IF o.undefined = "no" THEN undefined ELSE o.undefined
    /\ calls' = <<>>
    /\ UNCHANGED <<screenServices, builderState, builderServices, lastOp, pc,
                   widgets, graticules, storeVars, tableVars>>

\* The types the renderer makes no object for during one setWidgets call.
\* The loop breaks at the first failure, so one type stands for any set
\* whose first member in table order it is.
CreationFailures == {{}} \cup {{ty} : ty \in Types}

\* screen.setWidgets(), in any state.
ScreenSetWidgets ==
    /\ undefined /= "trapped"
    /\ \E failed \in CreationFailures :
       \E o \in screenSetWidgets(screenState, screenServices, registry, pool,
                                 widgets, attributes, failed) :
           /\ screenState' = o.state
           /\ widgets' = o.widgets
           /\ calls' = o.calls
           /\ undefined' = IF o.undefined = "no" THEN undefined ELSE o.undefined
    /\ UNCHANGED <<screenServices, builderState, builderServices, lastOp, pc,
                   attributes, graticules, storeVars, tableVars>>

\* screen.drawWidgets(), in any state.
ScreenDrawWidgets ==
    /\ undefined /= "trapped"
    /\ \E o \in screenDrawWidgets(screenState, screenServices, pool, widgets) :
           /\ screenState' = o.state
           /\ calls' = o.calls
           /\ undefined' = IF o.undefined = "no" THEN undefined ELSE o.undefined
    /\ UNCHANGED <<screenServices, builderState, builderServices, lastOp, pc,
                   attributes, widgets, graticules, storeVars, tableVars>>

NextScreen ==
    \/ ScreenSetServicesAny
    \/ ScreenSetRegistry
    \/ ScreenSetWidgets
    \/ ScreenDrawWidgets

SpecScreen == InitScreen /\ [][NextScreen]_vars

(***************************************************************************)
(* SpecBuilder: the stores are populated once at startup, then the two     *)
(* methods of WidgetBuilder are called in any order, with any arguments.   *)
(***************************************************************************)
\* The records a client may register for Type::GRAPH: the record of
\* UI::Definitions::Widgets before and after Screen::setRegistry, that
\* record with the Graph payload left as constructed, and with one division
\* more than the arrays of Graticules hold.
GraphRecords ==
    {setGraticules,
     setRegistryEntry(setGraticules),
     [setRegistryEntry(setGraticules) EXCEPT !.data.graph = Graph],
     [setRegistryEntry(setGraticules) EXCEPT
         !.data.graph.xDivisionQty = MAX_GRATICULES + 1]}

InitBuilder ==
    /\ NoTable
    /\ MachinesInit
    /\ \E m \in SetupMaps : regMap = m /\ registry = populated(m)
    /\ \E m \in SetupMaps : poolMap = m /\ pool = populated(m)
    /\ \E a \in GraphRecords :
           attributes = [ty \in Types |->
                            CASE ty = TypeGRAPH -> a
                              [] ty = TypeLABEL -> setLabel
                              [] OTHER -> setDefault]
    /\ widgets = [ty \in Types |->
                     IF ty = TypeGRAPH THEN setDrawEvent ELSE Widget]
    /\ calls = <<>>
    /\ undefined = "no"
    /\ graticules = Graticules

\* builder.setServices with any arguments.
BuilderSetServicesAny ==
    \E r \in ServicePtrs, p \in ServicePtrs :
        BuilderSetServicesCall(r, p) /\ UNCHANGED lastOp

\* builder.setWidgets(), in any state.
BuilderSetWidgets ==
    /\ undefined /= "trapped"
    /\ \E o \in builderSetWidgets(builderState, builderServices, registry,
                                  pool, attributes, graticules) :
           /\ builderState' = o.state
           /\ graticules' = o.graticules
           /\ calls' = o.calls
           /\ undefined' = IF o.undefined = "no" THEN undefined ELSE o.undefined
    /\ UNCHANGED <<screenState, screenServices, builderServices, lastOp, pc,
                   attributes, widgets, storeVars, tableVars>>

NextBuilder == BuilderSetServicesAny \/ BuilderSetWidgets

SpecBuilder == InitBuilder /\ [][NextBuilder]_vars

(***************************************************************************)
(* SpecGraticules: one Graticules object is configured, and configured     *)
(* again, with any boundary and any division counts.                       *)
(***************************************************************************)
\* The number of configure calls in one behaviour.
MaxConfigure == 2

\* Boundaries handed to configure: the 480x384 area, a small area away from
\* the origin, a single pixel, and the widest spans int16_t coordinates
\* admit.
Boundaries ==
    {[x1 |-> 0, y1 |-> 0, x2 |-> 479, y2 |-> 383],
     [x1 |-> 10, y1 |-> 5, x2 |-> 19, y2 |-> 9],
     [x1 |-> 5, y1 |-> 5, x2 |-> 5, y2 |-> 5],
     [x1 |-> 0, y1 |-> 0, x2 |-> 32767, y2 |-> 32766],
     [x1 |-> -32768, y1 |-> 0, x2 |-> 32767, y2 |-> 0]}

\* Division counts handed to configure, <<timeDivisions, voltageDivisions>>:
\* int8_t values inside the arrays' capacity, zero, negative, and above it.
DivisionPairs ==
    {<<10, 8>>, <<1, MAX_GRATICULES>>, <<3, 3>>, <<-1, 2>>, <<0, 1>>,
     <<MAX_GRATICULES + 1, 1>>, <<4, -128>>}

InitGraticules ==
    /\ NoTable
    /\ NoStores
    /\ MachinesInit
    /\ attributes = <<>>
    /\ widgets = <<>>
    /\ calls = <<>>
    /\ undefined = "no"
    /\ graticules = Graticules

\* graticules.configure(&b, RED, 2, BLACK, 1, d[1], d[2], d[1] / 2, d[2] / 2):
\* the origin lines in the middle of each axis, as the record of
\* UI::Definitions::Widgets has them (5 of 10, 4 of 8).
Configure ==
    /\ undefined /= "trapped"
    /\ Len(calls) < MaxConfigure
    /\ \E b \in Boundaries, d \in DivisionPairs :
       \E o \in configure(graticules, b, ColorRED, 2, ColorBLACK, 1,
                          d[1], d[2], quotient(d[1], 2), quotient(d[2], 2)) :
           /\ graticules' = o.graticules
           /\ calls' = Append(calls, [fn |-> "Graticules::configure",
                                      boundary |-> b, timeDivisions |-> d[1],
                                      voltageDivisions |-> d[2]])
           /\ undefined' = IF o.undefined = "no" THEN undefined ELSE o.undefined
    /\ UNCHANGED <<attributes, widgets, machineVars, storeVars, tableVars>>

NextGraticules == Configure

SpecGraticules == InitGraticules /\ [][NextGraticules]_vars

(***************************************************************************)
(* SpecMath: the two scaling helpers of Utils::Math are called with any    *)
(* percentage and any dimension; calls holds the call and what it          *)
(* returned.                                                               *)
(***************************************************************************)
\* Percentages handed to the helpers (the documented range is 0-100).
Percents == {0, 1, 10, 11, 21, 25, 50, 53, 70, 100}

\* Dimensions handed to the helpers: the ends of int16_t, the display's
\* resolution, and sizes between.
Dimensions == {-32768, -100, 0, 1, 100, 300, 320, 480, 3591, 4443, 32767}

InitMath == NoTable /\ NoStores /\ MachinesInit /\ NoObjects

\* Utils::Math::dimensionScaling(percent, dimension)
DimensionScaling ==
    /\ \E percent \in Percents, dimension \in Dimensions :
           calls' = <<[fn |-> "Utils::Math::dimensionScaling",
                       percent |-> percent, dimension |-> dimension,
                       result |-> dimensionScaling(percent, dimension)]>>
    /\ UNCHANGED <<attributes, widgets, undefined, graticules, machineVars,
                   storeVars, tableVars>>

\* Utils::Math::areaScaling(percent, dimension)
AreaScaling ==
    /\ \E percent \in Percents, dimension \in Dimensions :
           calls' = <<[fn |-> "Utils::Math::areaScaling",
                       percent |-> percent, dimension |-> dimension,
                       result |-> areaScaling(percent, dimension)]>>
    /\ UNCHANGED <<attributes, widgets, undefined, graticules, machineVars,
                   storeVars, tableVars>>

NextMath == DimensionScaling \/ AreaScaling

SpecMath == InitMath /\ [][NextMath]_vars

(***************************************************************************)
(* SpecOrchestrator: setup() of main.cpp.  The stores are populated, then  *)
(* setScreen polls the screen's state and calls the method that state asks *)
(* for until the state is final, setBuilder does the same with the         *)
(* builder, and drawWidgets is called.  pc is "setScreen", "setBuilder" or *)
(* "drawWidgets" while setup is in that part, "returned" once it has       *)
(* returned.                                                               *)
(***************************************************************************)
\* The GRAPH records a client may have registered before setup's step 7:
\* the record of UI::Definitions::Widgets, that record with the Graph
\* payload left as constructed, and with one division more than the arrays
\* of Graticules hold.
SetupGraphRecords ==
    {setGraticules,
     [setGraticules EXCEPT !.data.graph = Graph],
     [setGraticules EXCEPT !.data.graph.xDivisionQty = MAX_GRATICULES + 1]}

InitOrchestrator ==
    /\ NoTable
    /\ screenState = "UNINITIALIZED"
    /\ screenServices = [widgetRegistry |-> NullPtr, widgetPool |-> NullPtr]
    /\ builderState = "UNINITIALIZED"
    /\ builderServices = [widgetRegistry |-> NullPtr, widgetPool |-> NullPtr]
    /\ lastOp = NoOp
    /\ pc = "setScreen"
    /\ \E m \in SetupMaps : regMap = m /\ registry = populated(m)
    /\ \E m \in SetupMaps : poolMap = m /\ pool = populated(m)
    /\ \E a \in SetupGraphRecords :
           attributes = [ty \in Types |->
                            CASE ty = TypeGRAPH -> a
                              [] ty = TypeLABEL -> setLabel
                              [] OTHER -> setDefault]
    /\ widgets = [ty \in Types |->
                     IF ty = TypeGRAPH THEN setDrawEvent ELSE Widget]
    /\ calls = <<>>
    /\ undefined = "no"
    /\ graticules = Graticules

\* The address of the registry and of the pool singleton.
TheServices == 1

\* setScreen, case UNINITIALIZED: screen.setServices(widgetRegistry, widgetPool)
SetScreenSetServices ==
    /\ pc = "setScreen" /\ undefined /= "trapped"
    /\ screenState = "UNINITIALIZED"
    /\ LET s == screenSetServices(TheServices, TheServices)
       IN  screenServices' = s.services /\ screenState' = s.state
    /\ UNCHANGED <<builderState, builderServices, lastOp, pc, storeVars,
                   tableVars, objectVars>>

\* setScreen, case SERVICES_SET: screen.setRegistry()
SetScreenSetRegistry ==
    /\ pc = "setScreen" /\ undefined /= "trapped"
    /\ screenState = "SERVICES_SET"
    /\ \E o \in screenSetRegistry(screenState, screenServices, registry, attributes) :
           /\ screenState' = o.state
           /\ attributes' = o.attributes
           /\ undefined' = IF o.undefined = "no" THEN undefined ELSE o.undefined
    /\ calls' = <<>>
    /\ UNCHANGED <<screenServices, builderState, builderServices, lastOp, pc,
                   widgets, graticules, storeVars, tableVars>>

\* setScreen, case WIDGETS_REGISTERED: screen.setWidgets()
SetScreenSetWidgets ==
    /\ pc = "setScreen" /\ undefined /= "trapped"
    /\ screenState = "WIDGETS_REGISTERED"
    /\ \E failed \in CreationFailures :
       \E o \in screenSetWidgets(screenState, screenServices, registry, pool,
                                 widgets, attributes, failed) :
           /\ screenState' = o.state
           /\ widgets' = o.widgets
           /\ calls' = o.calls
           /\ undefined' = IF o.undefined = "no" THEN undefined ELSE o.undefined
    /\ UNCHANGED <<screenServices, builderState, builderServices, lastOp, pc,
                   attributes, graticules, storeVars, tableVars>>

\* A plausible slip in setup: the result of setScreen is not looked at, and
\* setBuilder is called whatever state the screen ended in.
SetScreenResultIgnored ==
    /\ pc = "setScreen" /\ undefined /= "trapped"
    /\ screenState \notin {"UNINITIALIZED", "SERVICES_SET", "WIDGETS_REGISTERED"}
    /\ pc' = "setBuilder"
    /\ UNCHANGED <<screenState, screenServices, builderState, builderServices,
                   lastOp, storeVars, tableVars, objectVars>>

\* setScreen, the other cases: return true in ATTRIBUTES_SET, so that setup
\* goes on to setBuilder, and false in every other state, so that setup
\* returns.
SetScreenReturns ==
    /\ pc = "setScreen" /\ undefined /= "trapped"
    /\ screenState \notin {"UNINITIALIZED", "SERVICES_SET", "WIDGETS_REGISTERED"}
    /\ pc' = IF screenState = "ATTRIBUTES_SET" THEN "setBuilder" ELSE "returned"
    /\ UNCHANGED <<screenState, screenServices, builderState, builderServices,
                   lastOp, storeVars, tableVars, objectVars>>

\* setBuilder, case UNINITIALIZED: builder.setServices(widgetRegistry, widgetPool)
SetBuilderSetServices ==
    /\ pc = "setBuilder" /\ undefined /= "trapped"
    /\ builderState = "UNINITIALIZED"
    /\ LET s == builderSetServices(TheServices, TheServices)
       IN  builderServices' = s.services /\ builderState' = s.state
    /\ UNCHANGED <<screenState, screenServices, lastOp, pc, storeVars,
                   tableVars, objectVars>>

\* setBuilder, case SERVICES_SET: builder.setWidgets()
SetBuilderSetWidgets ==
    /\ pc = "setBuilder" /\ undefined /= "trapped"
    /\ builderState = "SERVICES_SET"
    /\ \E o \in builderSetWidgets(builderState, builderServices, registry,
                                  pool, attributes, graticules) :
           /\ builderState' = o.state
           /\ graticules' = o.graticules
           /\ calls' = o.calls
           /\ undefined' = IF o.undefined = "no" THEN undefined ELSE o.undefined
    /\ UNCHANGED <<screenState, screenServices, builderServices, lastOp, pc,
                   attributes, widgets, storeVars, tableVars>>

\* setBuilder, the other cases: return true in COMPLETE, so that setup goes
\* on to drawWidgets, and false in every other state, so that setup returns.
SetBuilderReturns ==
    /\ pc = "setBuilder" /\ undefined /= "trapped"
    /\ builderState \notin {"UNINITIALIZED", "SERVICES_SET"}
    /\ pc' = IF builderState = "COMPLETE" THEN "drawWidgets" ELSE "returned"
    /\ UNCHANGED <<screenState, screenServices, builderState, builderServices,
                   lastOp, storeVars, tableVars, objectVars>>

\* setup, step 8: screen.drawWidgets(), then setup returns.
SetupDrawWidgets ==
    /\ pc = "drawWidgets" /\ undefined /= "trapped"
    /\ \E o \in screenDrawWidgets(screenState, screenServices, pool, widgets) :
           /\ screenState' = o.state
           /\ calls' = o.calls
           /\ undefined' = IF o.undefined = "no" THEN undefined ELSE o.undefined
           /\ pc' = IF o.undefined = "trapped" THEN pc ELSE "returned"
    /\ UNCHANGED <<screenServices, builderState, builderServices, lastOp,
                   attributes, widgets, graticules, storeVars, tableVars>>

NextOrchestrator ==
    \/ SetScreenSetServices
    \/ SetScreenSetRegistry
    \/ SetScreenSetWidgets
    \/ SetScreenReturns
    \/ SetBuilderSetServices
    \/ SetBuilderSetWidgets
    \/ SetBuilderReturns
    \/ SetupDrawWidgets

SpecOrchestrator == InitOrchestrator /\ [][NextOrchestrator]_vars

(***************************************************************************)
(* SpecResolve: setScreen up to setRegistry, for a record of any sizing    *)
(* mode, custom or not, with any stored size and percentage.               *)
(***************************************************************************)
\* Stored widths and heights, and percentages, a client may put in a
\* record: Geometry's defaults (0) among them.
ResolveSizes == {0, 1, 150, 480}
ResolvePercents == {0, 21, 70, 100}

\* The records a client may register for Type::DEFAULT.
ResolveRecords ==
    {[Attributes EXCEPT !.isCustom = c, !.geometry.mode = m,
                        !.geometry.width = w, !.geometry.height = h,
                        !.geometry.percentSize = p] :
        c \in BOOLEAN, m \in SizingModes, w \in ResolveSizes,
        h \in ResolveSizes, p \in ResolvePercents}

InitResolve ==
    /\ NoTable
    /\ screenState = "UNINITIALIZED"
    /\ screenServices = [widgetRegistry |-> NullPtr, widgetPool |-> NullPtr]
    /\ builderState = "UNINITIALIZED"
    /\ builderServices = [widgetRegistry |-> NullPtr, widgetPool |-> NullPtr]
    /\ lastOp = NoOp
    /\ pc = "setScreen"
    /\ regMap = [ty \in Types |-> {1}] /\ registry = populated(regMap)
    /\ poolMap = [ty \in Types |-> {1}] /\ pool = populated(poolMap)
    /\ \E a \in ResolveRecords :
           attributes = [ty \in Types |->
                            CASE ty = TypeGRAPH -> setGraticules
                              [] ty = TypeLABEL -> setLabel
                              [] OTHER -> a]
    /\ widgets = [ty \in Types |->
                     IF ty = TypeGRAPH THEN setDrawEvent ELSE Widget]
    /\ calls = <<>>
    /\ undefined = "no"
    /\ graticules = Graticules

NextResolve == SetScreenSetServices \/ SetScreenSetRegistry

SpecResolve == InitResolve /\ [][NextResolve]_vars

(***************************************************************************)
(* SpecStyle: setScreen up to setWidgets, for a record with any of its     *)
(* style groups as constructed or with one field set.                      *)
(***************************************************************************)
\* Each style group as constructed, and with one of its fields changed.
StyleSpacings ==
    {Attributes.spacing,
     [Attributes.spacing EXCEPT !.padding = 4],
     [Attributes.spacing EXCEPT !.margin = 3]}

StyleBackgrounds ==
    {Attributes.background,
     [Attributes.background EXCEPT !.backgroundColor = ColorWHITE],
     [Attributes.background EXCEPT !.backgroundOpacity = 255]}

StyleBorders ==
    {Attributes.border,
     [Attributes.border EXCEPT !.borderWidth = 2],
     [Attributes.border EXCEPT !.borderColor = ColorRED],
     [Attributes.border EXCEPT !.borderOpacity = 255],
     [Attributes.border EXCEPT !.borderSide = "LV_BORDER_SIDE_TOP"]}

StyleOutlines ==
    {Attributes.outline,
     [Attributes.outline EXCEPT !.outlineWidth = 1],
     [Attributes.outline EXCEPT !.outlineColor = ColorRED],
     [Attributes.outline EXCEPT !.outlineOpacity = 255]}

StyleTexts ==
    {Attributes.text,
     [Attributes.text EXCEPT !.font = 1],
     [Attributes.text EXCEPT !.textColor = ColorWHITE],
     [Attributes.text EXCEPT !.letterSpacing = 5],
     [Attributes.text EXCEPT !.lineSpacing = 10],
     [Attributes.text EXCEPT !.textOpacity = 128],
     [Attributes.text EXCEPT !.textDecor = "LV_TEXT_DECOR_UNDERLINE"]}

\* The records a client may register for Type::DEFAULT.
StyleRecords ==
    {[Attributes EXCEPT !.spacing = sp, !.background = bg, !.border = bd,
                        !.outline = ol, !.text = tx] :
        sp \in StyleSpacings, bg \in StyleBackgrounds, bd \in StyleBorders,
        ol \in StyleOutlines, tx \in StyleTexts}

InitStyle ==
    /\ NoTable
    /\ screenState = "UNINITIALIZED"
    /\ screenServices = [widgetRegistry |-> NullPtr, widgetPool |-> NullPtr]
    /\ builderState = "UNINITIALIZED"
    /\ builderServices = [widgetRegistry |-> NullPtr, widgetPool |-> NullPtr]
    /\ lastOp = NoOp
    /\ pc = "setScreen"
    /\ regMap = [ty \in Types |-> {1}] /\ registry = populated(regMap)
    /\ poolMap = [ty \in Types |-> {1}] /\ pool = populated(poolMap)
    /\ \E a \in StyleRecords :
           attributes = [ty \in Types |->
                            CASE ty = TypeGRAPH -> setGraticules
                              [] ty = TypeLABEL -> setLabel
                              [] OTHER -> a]
    /\ widgets = [ty \in Types |->
                     IF ty = TypeGRAPH THEN setDrawEvent ELSE Widget]
    /\ calls = <<>>
    /\ undefined = "no"
    /\ graticules = Graticules

NextStyle ==
    \/ SetScreenSetServices
    \/ SetScreenSetRegistry
    \/ SetScreenSetWidgets

SpecStyle == InitStyle /\ [][NextStyle]_vars

(***************************************************************************)
(* Claims about HashTable, checked under Spec (C5 under SpecCapacity).     *)
(***************************************************************************)
\* The slots that hold key, occupied and not tombstoned.
liveSlots(t, key) ==
    {p \in DOMAIN t : t[p].occupied /\ ~t[p].deleted /\ t[p].key = key}

\* C1: for every key whose last operation was a successful insert(k, v),
\* find(k) is not absent and points to exactly v.
C1_FindReturnsLastInserted ==
    \A k \in Keys :
        lastIns[k] /= {} =>
            /\ find(table, k) /= NoSlot
            /\ lastIns[k] = {table[find(table, k)].value}

\* C1's case: a key re-inserted over the tombstone of a colliding key, so
\* that an older value of the key still lies further along its probe chain.
C1_Witness ==
    \E k \in Keys :
        /\ lastIns[k] /= {}
        /\ \E p \in liveSlots(table, k) : {table[p].value} /= lastIns[k]

\* C2: in every reachable state, a call remove(k) that returns true leaves a
\* table in which find(k) is absent.
C2_RemoveThenFindAbsent ==
    \A k \in Keys :
        LET r == remove(table, k)
        IN  r.ret => find(r.table, k) = NoSlot

\* C3: each key is held by at most one slot that is occupied and not
\* tombstoned.
C3_KeyInAtMostOneLiveSlot ==
    \A k \in Keys : Cardinality(liveSlots(table, k)) <= 1

\* How often key occurs in a sequence of keys.
occurrences(s, key) == Cardinality({n \in 1..Len(s) : s[n] = key})

\* C4: iterating begin()..end() yields every key that find reports present
\* exactly once, and no other key.
C4_IterationYieldsEachFoundKeyOnce ==
    \A k \in Keys :
        occurrences(iterationKeys(table), k) =
            IF find(table, k) /= NoSlot THEN 1 ELSE 0

\* C5: from an empty table, each of the first Capacity inserts of distinct
\* keys returns true (lastIns records the value of an insert that returned
\* true) and its key stays findable with its value; the insert of the
\* (Capacity+1)th distinct key returns false.
C5_CapacityPlusOneInsertFails ==
    \A n \in 1..Len(log) :
        /\ n <= Capacity =>
              /\ lastIns[log[n]] /= {}
              /\ find(table, log[n]) /= NoSlot
              /\ lastIns[log[n]] = {table[find(table, log[n])].value}
        /\ n = Capacity + 1 => lastIns[log[n]] = {}

\* C5's case: the (Capacity+1)th distinct key has been inserted.
C5_Witness == Len(log) = Capacity + 1

\* The slots insert may use for key: empty, tombstoned or holding key.
usable(t, key) ==
    {p \in DOMAIN t : ~t[p].occupied \/ t[p].deleted \/ t[p].key = key}

\* The distance of slot p from key's hash slot, in probe order.
probeDistance(t, key, p) == (p - (key % CapacityOf(t))) % CapacityOf(t)

\* C6: insert(key, value) returns false iff every slot is occupied, not
\* tombstoned and holds another key; then the table is unchanged. When it
\* returns true, the first usable slot in probe order is written with the
\* pair, occupied and not tombstoned, and no other slot is touched.
C6_InsertResultAndEffect ==
    \A key \in Keys, value \in Values :
        LET r == insert(table, key, value)
        IN  /\ r.ret = FALSE <=> usable(table, key) = {}
            /\ r.ret = FALSE => r.table = table
            /\ r.ret = TRUE =>
                  \E p \in usable(table, key) :
                      /\ \A q \in usable(table, key) :
                            probeDistance(table, key, p) <= probeDistance(table, key, q)
                      /\ r.table[p] = [key |-> key, value |-> value,
                                       occupied |-> TRUE, deleted |-> FALSE]
                      /\ \A q \in DOMAIN table \ {p} : r.table[q] = table[q]

\* C6's case: a full table, in which a key lies away from its hash slot and
\* the insert of a key it does not hold returns false.
C6_Witness ==
    /\ \E key \in Keys : usable(table, key) = {}
    /\ \E key \in Keys : find(table, key) /= NoSlot
                         /\ find(table, key) /= hashFunction(table, key)
    /\ \E key \in Keys : lastIns[key] = {} /\ find(table, key) = NoSlot

\* C7: remove(key) returns true iff find(key) was not absent; when false the
\* table is unchanged; when true exactly one slot changes, and it becomes
\* tombstoned with key and value reset to their defaults.
C7_RemoveResultAndEffect ==
    \A key \in Keys :
        LET r == remove(table, key)
        IN  /\ r.ret = TRUE <=> find(table, key) /= NoSlot
            /\ r.ret = FALSE => r.table = table
            /\ r.ret = TRUE =>
                  \E p \in DOMAIN table :
                      /\ r.table[p] /= table[p]
                      /\ r.table[p].deleted
                      /\ r.table[p].key = DefaultKey
                      /\ r.table[p].value = DefaultValue
                      /\ \A q \in DOMAIN table \ {p} : r.table[q] = table[q]

\* C7's case: a removal has left a tombstone, and both a present and an
\* absent key exist.
C7_Witness ==
    /\ \E p \in DOMAIN table : table[p].deleted /\ table[p].key = DefaultKey
    /\ \E key \in Keys : find(table, key) /= NoSlot
    /\ \E key \in Keys : find(table, key) = NoSlot

\* The lookup the specification describes: probe from the hash slot, report
\* absent at the first slot that was never occupied, pass over tombstones.
RECURSIVE referenceProbe(_, _, _)
referenceProbe(t, key, i) ==
    IF i >= CapacityOf(t) THEN NoSlot
    ELSE LET probe == (hashFunction(t, key) + i) % CapacityOf(t)
         IN  IF ~t[probe].occupied THEN NoSlot
             ELSE IF ~t[probe].deleted /\ t[probe].key = key THEN probe
             ELSE referenceProbe(t, key, i + 1)

\* The slots of key's probe sequence that come before slot p.
before(t, key, p) ==
    {q \in DOMAIN t : probeDistance(t, key, q) < probeDistance(t, key, p)}

\* C23: for every reachable table and every key, find, which probes all
\* Capacity slots, returns what the early-stopping lookup returns: the same
\* slot, or absent.
C23_FindAgreesWithEarlyStop ==
    \A key \in Keys : find(table, key) = referenceProbe(table, key, 0)

\* C23's case: a key is found behind a tombstone of its probe sequence,
\* where a lookup that stopped at tombstones would report it absent.
C23_Witness ==
    \E key \in Keys :
        /\ find(table, key) /= NoSlot
        /\ \E q \in before(table, key, find(table, key)) : table[q].deleted

\* C24: for every reachable table and any two distinct keys k1, k2,
\* remove(k1) leaves find(k2) as it was: the same slot with the same value,
\* or absent as before.
C24_RemoveKeepsOtherKeys ==
    \A k1 \in Keys : \A k2 \in Keys \ {k1} :
        LET r == remove(table, k1)
        IN  /\ find(r.table, k2) = find(table, k2)
            /\ find(table, k2) /= NoSlot =>
                  r.table[find(r.table, k2)].value = table[find(table, k2)].value

\* C24's case: k1 and k2 hash to the same slot, both are present, and k2
\* lies behind k1 in the probe sequence.
C24_Witness ==
    \E k1 \in Keys : \E k2 \in Keys \ {k1} :
        /\ hashFunction(table, k1) = hashFunction(table, k2)
        /\ find(table, k1) /= NoSlot
        /\ find(table, k2) /= NoSlot
        /\ find(table, k1) \in before(table, k2, find(table, k2))

\* C25: in every reachable table getSize() is the number of slots occupied
\* and not tombstoned and lies in 0..Capacity, isEmpty() holds exactly when
\* getSize() is 0, an insert that returns true raises getSize() by 1 when
\* the key was absent and leaves it when the key was present, and a remove
\* that returns true lowers it by 1.
C25_SizeAccounting ==
    /\ getSize(table) =
           Cardinality(UNION {liveSlots(table, key) : key \in Keys})
    /\ getSize(table) \in 0..CapacityOf(table)
    /\ isEmpty(table) <=> getSize(table) = 0
    /\ \A key \in Keys, value \in Values :
           LET r == insert(table, key, value)
           IN  r.ret =>
                   getSize(r.table) =
                       IF find(table, key) = NoSlot THEN getSize(table) + 1
                       ELSE getSize(table)
    /\ \A key \in Keys :
           LET r == remove(table, key)
           IN  r.ret => getSize(r.table) = getSize(table) - 1

\* C26: iterating begin()..end() visits the occupied, non-tombstoned slots,
\* all of them and no other slot, in strictly increasing slot order, and
\* ends after at most Capacity steps.
C26_IterationInSlotOrder ==
    LET slots == iterateFrom(table, begin(table))
    IN  /\ \A n \in 1..(Len(slots) - 1) : slots[n] < slots[n + 1]
        /\ {slots[n] : n \in 1..Len(slots)} =
               {p \in DOMAIN table : table[p].occupied /\ ~table[p].deleted}
        /\ Len(slots) <= CapacityOf(table)

\* C26's case: the iteration passes over a tombstone and then visits an
\* entry whose key hashes to the tombstone's slot, so that the entry was
\* inserted after the one the tombstone replaced.
C26_Witness ==
    LET slots == iterateFrom(table, begin(table))
    IN  /\ Len(slots) >= 1
        /\ \E p \in DOMAIN table :
               /\ p < slots[1]
               /\ table[p].deleted
               /\ hashFunction(table, table[slots[1]].key) = p

\* C27: the tombstone of another key, whose slot key is reset to Key{}, is
\* never taken for an entry of Key{}: find(Key{}) is not absent, and the
\* iteration yields Key{}, only if the last call on Key{} was an insert that
\* returned true.
C27_TombstoneIsNotDefaultKey ==
    /\ find(table, DefaultKey) /= NoSlot => lastIns[DefaultKey] /= {}
    /\ occurrences(iterationKeys(table), DefaultKey) > 0 =>
           lastIns[DefaultKey] /= {}

(***************************************************************************)
(* Claims about the stores, checked under SpecStores.                      *)
(***************************************************************************)
\* The types a history maps.
mapped(m) == {ty \in Types : m[ty] /= {}}

\* C8: for both stores, after any sequence of add and remove calls: a type
\* whose last call was add(type, X) gets X, a type whose last call was
\* remove (or that was never added) gets null, the number of entries is the
\* number of mapped types (an overwrite does not grow it), and isEmpty() is
\* true exactly when no type is mapped.
C8_StoresRoundTrip ==
    /\ \A ty \in Types :
          /\ regMap[ty] /= {} => regMap[ty] = {getAttribute(registry, ty)}
          /\ regMap[ty] = {} => getAttribute(registry, ty) = NullPtr
          /\ poolMap[ty] /= {} => poolMap[ty] = {getWidget(pool, ty)}
          /\ poolMap[ty] = {} => getWidget(pool, ty) = NullPtr
    /\ getSize(registry) = Cardinality(mapped(regMap))
    /\ getSize(pool) = Cardinality(mapped(poolMap))
    /\ registryIsEmpty(registry) <=> mapped(regMap) = {}
    /\ poolIsEmpty(pool) <=> mapped(poolMap) = {}

\* C8's case: the pool emptied again by removes (tombstones left), the
\* registry holding all three types, one of them re-registered after a remove.
C8_Witness ==
    /\ mapped(regMap) = Types
    /\ \E ty \in Types : regMap[ty] /= {NullPtr}
    /\ mapped(poolMap) = {}
    /\ \A ty \in Types : pool[ty].deleted
    /\ poolIsEmpty(pool)

\* C9: remove on the registry and on the pool each return a boolean, true
\* exactly when the type had a mapping before the call.
C9_RemoveReportsOutcome ==
    \A ty \in Types :
        /\ registryRemoveWidget(registry, ty).ret = Bool(find(registry, ty) /= NoSlot)
        /\ poolRemoveWidget(pool, ty).ret = Bool(find(pool, ty) /= NoSlot)

(***************************************************************************)
(* Claims about the state machines, checked under SpecSetup.               *)
(***************************************************************************)
\* C10: setServices called in UNINITIALIZED, on the screen and on the
\* builder: the state becomes SERVICES_SET iff both pointers are non-null,
\* and ERROR_SERVICES if either is null.
C10_SetServicesFromUninitialized ==
    LET both == lastOp.widgetRegistry /= NullPtr /\ lastOp.widgetPool /= NullPtr
    IN  /\ (lastOp.op = "Screen::setServices" /\ lastOp.from = "UNINITIALIZED") =>
              /\ screenState = "SERVICES_SET" <=> both
              /\ ~both => screenState = "ERROR_SERVICES"
        /\ (lastOp.op = "WidgetBuilder::setServices" /\ lastOp.from = "UNINITIALIZED") =>
              /\ builderState = "SERVICES_SET" <=> both
              /\ ~both => builderState = "ERROR_SERVICES"

\* C10's case: the screen was given both services, then the builder, still
\* UNINITIALIZED, a registry and a null pool.
C10_Witness ==
    /\ lastOp.op = "WidgetBuilder::setServices"
    /\ lastOp.from = "UNINITIALIZED"
    /\ lastOp.widgetRegistry /= NullPtr
    /\ lastOp.widgetPool = NullPtr
    /\ builderState = "ERROR_SERVICES"
    /\ screenState = "SERVICES_SET"

(***************************************************************************)
(* Claims about Screen, checked under SpecScreen.                          *)
(***************************************************************************)
ScreenErrorStates == {"ERROR_SERVICES", "ERROR_REGISTRATION", "ERROR_ATTRIBUTES"}

\* C11: once the screen is in ERROR_SERVICES, ERROR_REGISTRATION or
\* ERROR_ATTRIBUTES, no call of setServices, setRegistry, setWidgets or
\* drawWidgets changes its state.  (Stated of the calls that dereference no
\* null pointer: what the others do is undefined.)
C11_ErrorStatesTerminal ==
    [][(screenState \in ScreenErrorStates /\ undefined' = "no") =>
          (screenState' = screenState)]_vars

\* The edges of the screen's state diagram.
ScreenEdges ==
    {<<"UNINITIALIZED", "SERVICES_SET">>, <<"UNINITIALIZED", "ERROR_SERVICES">>,
     <<"SERVICES_SET", "WIDGETS_REGISTERED">>,
     <<"SERVICES_SET", "ERROR_REGISTRATION">>,
     <<"WIDGETS_REGISTERED", "ATTRIBUTES_SET">>,
     <<"WIDGETS_REGISTERED", "ERROR_ATTRIBUTES">>,
     <<"ATTRIBUTES_SET", "COMPLETE">>}

\* C12: whatever method is called, in whatever state, a change of the
\* screen's state is an edge of the diagram; a method called outside its
\* source state leaves the state as it is.  (Stated of the calls that
\* dereference no null pointer.)
C12_ScreenTransitionDiscipline ==
    [][(screenState' /= screenState /\ undefined' = "no") =>
          (<<screenState, screenState'>> \in ScreenEdges)]_vars

\* The entries of a store's table: its occupied, not tombstoned slots.
entries(t) == {i \in DOMAIN t : t[i].occupied /\ ~t[i].deleted}

\* dim is the size that a stored size, or a percentage of the resolution
\* res, resolves to under a sizing mode.
resolvedSize(mode, stored, percent, res, dim) ==
    CASE mode = "AREA_PERCENT" ->
            /\ dim * dim * 100 <= res * res * percent
            /\ res * res * percent < (dim + 1) * (dim + 1) * 100
      [] mode = "DIMENSION_PERCENT" ->
            /\ dim * 100 <= res * percent
            /\ res * percent < (dim + 1) * 100
      [] OTHER -> dim = stored

\* Record b is record a resolved: its width and height are the sizes its
\* mode asks for, a custom record's boundary is (0,0)-(width-1,height-1),
\* and nothing but the geometry differs.
resolved(a, b) ==
    LET g == a.geometry
        h == b.geometry
    IN  /\ resolvedSize(g.mode, g.width, g.percentSize, horizontalRes, h.width)
        /\ resolvedSize(g.mode, g.height, g.percentSize, verticalRes, h.height)
        /\ a.isCustom => h.boundary = [x1 |-> 0, y1 |-> 0, x2 |-> h.width - 1,
                                       y2 |-> h.height - 1]
        /\ [b EXCEPT !.geometry = g] = a
        /\ h.mode = g.mode /\ h.percentSize = g.percentSize

\* C13: setRegistry called in SERVICES_SET ends in ERROR_REGISTRATION iff
\* some registry entry holds a null attribute pointer; otherwise it ends in
\* WIDGETS_REGISTERED and every registered record has been resolved.
C13_SetRegistryOutcome ==
    screenState = "SERVICES_SET" =>
        \A o \in screenSetRegistry(screenState, screenServices, registry, attributes) :
            LET null == \E i \in entries(registry) : registry[i].value = NullPtr
            IN  /\ o.undefined = "no"
                /\ o.state = "ERROR_REGISTRATION" <=> null
                /\ ~null =>
                      /\ o.state = "WIDGETS_REGISTERED"
                      /\ \A i \in entries(registry) :
                             resolved(attributes[registry[i].key],
                                      o.attributes[registry[i].key])

\* C13's case: in SERVICES_SET, with all three records registered and not
\* yet resolved, setRegistry ends in WIDGETS_REGISTERED.
C13_Witness ==
    /\ screenState = "SERVICES_SET"
    /\ Cardinality(entries(registry)) = 3
    /\ attributes[TypeGRAPH] = setGraticules
    /\ \E o \in screenSetRegistry(screenState, screenServices, registry, attributes) :
           /\ o.state = "WIDGETS_REGISTERED"
           /\ o.attributes[TypeGRAPH].geometry.boundary.x2 = 400
           /\ o.attributes[TypeDEFAULT].geometry.boundary.y2 = 66

\* The place, in the order of iteration, of the first registry entry that
\* holds a null pointer; 0 when there is none.
firstNull(reg) ==
    LET slots == iterateFrom(reg, begin(reg))
        nulls == {n \in 1..Len(slots) : reg[slots[n]].value = NullPtr}
    IN  IF nulls = {} THEN 0 ELSE CHOOSE n \in nulls : \A m \in nulls : n <= m

\* C28: when setRegistry breaks off at an entry with a null attribute
\* pointer, every record visited before it is resolved, every record at a
\* later table position (and the one of the null entry) is as it was before
\* the call, and the state is ERROR_REGISTRATION.
C28_NoRollback ==
    (screenServices.widgetRegistry /= NullPtr /\ firstNull(registry) /= 0) =>
        \A o \in screenSetRegistry(screenState, screenServices, registry, attributes) :
            LET slots == iterateFrom(registry, begin(registry))
            IN  /\ o.state = "ERROR_REGISTRATION"
                /\ \A n \in 1..Len(slots) :
                       LET type == registry[slots[n]].key
                       IN  IF n < firstNull(registry)
                           THEN resolved(attributes[type], o.attributes[type])
                           ELSE o.attributes[type] = attributes[type]

\* C28's case: of three registered records the second holds a null
\* pointer, the first is changed by the call and the third, not yet
\* resolved, is left with the width it was constructed with.
C28_Witness ==
    /\ screenServices.widgetRegistry /= NullPtr
    /\ Len(iterateFrom(registry, begin(registry))) = 3
    /\ firstNull(registry) = 2
    /\ attributes = [ty \in Types |->
                        CASE ty = TypeGRAPH -> setGraticules
                          [] ty = TypeLABEL -> setLabel
                          [] OTHER -> setDefault]
    /\ \E o \in screenSetRegistry(screenState, screenServices, registry, attributes) :
           /\ o.attributes[TypeDEFAULT].geometry.width = 100
           /\ o.attributes[TypeDEFAULT].geometry.boundary.x2 = 99
           /\ o.attributes[TypeGRAPH].geometry.width = 0
           /\ setRegistryEntry(attributes[TypeGRAPH]).geometry.width = 401

\* The number of calls of fn in a call log that concern the object of type.
callCount(log_, fn, type) ==
    Cardinality({n \in 1..Len(log_) : log_[n].fn = fn /\ log_[n].type = type})

\* C14: setWidgets called in WIDGETS_REGISTERED ends in ERROR_ATTRIBUTES iff
\* for some pool entry the renderer returned no object or the registry has
\* no record of the entry's type; otherwise it ends in ATTRIBUTES_SET and
\* the back-reference of every pool instance has been set exactly once.
\* (Stated of a screen that holds both services and has dereferenced no null
\* pointer so far.)
C14_SetWidgetsOutcome ==
    (/\ screenState = "WIDGETS_REGISTERED"
     /\ undefined = "no"
     /\ screenServices.widgetRegistry /= NullPtr
     /\ screenServices.widgetPool /= NullPtr) =>
        \A failed \in CreationFailures :
        \A o \in screenSetWidgets(screenState, screenServices, registry, pool,
                                  widgets, attributes, failed) :
            LET missing == \E i \in entries(pool) :
                               \/ createWidget(pool[i].key, failed) = NullPtr
                               \/ getAttribute(registry, pool[i].key) = NullPtr
            IN  /\ o.state = "ERROR_ATTRIBUTES" <=> missing
                /\ ~missing =>
                      /\ o.state = "ATTRIBUTES_SET"
                      /\ \A i \in entries(pool) :
                             callCount(o.calls, "Widget::setLVGL", pool[i].key) = 1

\* C15: drawWidgets called in ATTRIBUTES_SET ends in COMPLETE and asks the
\* renderer to invalidate the render object of each pool instance exactly
\* once, and nothing else.  (Stated of a screen that has dereferenced no
\* null pointer so far.)
C15_DrawWidgetsInvalidatesEach ==
    (screenState = "ATTRIBUTES_SET" /\ undefined = "no") =>
        \A o \in screenDrawWidgets(screenState, screenServices, pool, widgets) :
            /\ o.undefined = "no"
            /\ o.state = "COMPLETE"
            /\ Len(o.calls) = Cardinality(entries(pool))
            /\ \A i \in entries(pool) :
                   /\ callCount(o.calls, "lv_obj_invalidate", pool[i].key) = 1
                   /\ \A n \in 1..Len(o.calls) :
                          o.calls[n].type = pool[i].key =>
                              /\ o.calls[n].obj /= NullPtr
                              /\ o.calls[n].obj =
                                     widgets[pool[i].key].lvgl_object_pointer

\* C15's case: ATTRIBUTES_SET over a pool of three instances, which
\* drawWidgets invalidates in table order.
C15_Witness ==
    /\ screenState = "ATTRIBUTES_SET"
    /\ undefined = "no"
    /\ Cardinality(entries(pool)) = 3
    /\ \E o \in screenDrawWidgets(screenState, screenServices, pool, widgets) :
           /\ o.state = "COMPLETE"
           /\ [n \in 1..3 |-> o.calls[n].type] = <<TypeDEFAULT, TypeLABEL, TypeGRAPH>>

(***************************************************************************)
(* Claims about WidgetBuilder, checked under SpecBuilder.                  *)
(***************************************************************************)
\* The registry's slots in the order an iteration visits them.
visitOrder(t) == iterateFrom(t, begin(t))

\* The registry entry in slot i has a null record, or the pool has no
\* instance of its type.
missing(i) ==
    registry[i].value = NullPtr \/ getWidget(pool, registry[i].key) = NullPtr

\* The types of the entries up to and including the first one that is
\* missing a record or an instance; of all entries if there is none.
untilFirstMissing ==
    LET order == visitOrder(registry)
        stops == {n \in 1..Len(order) : missing(order[n])}
        last == IF stops = {} THEN Len(order)
                ELSE CHOOSE n \in stops : \A m \in stops : n <= m
    IN  [n \in 1..last |-> registry[order[n]].key]

\* C16: setWidgets called in SERVICES_SET ends in ERROR_BUILDING iff some
\* registry entry has a null record or no instance of its type in the pool,
\* and in COMPLETE otherwise; it visits no entry after the first such one.
C16_BuildLoopOutcome ==
    (builderState = "SERVICES_SET" /\ undefined = "no") =>
        \A o \in builderSetWidgets(builderState, builderServices, registry,
                                   pool, attributes, graticules) :
            LET some == \E i \in entries(registry) : missing(i)
            IN  /\ o.state = "ERROR_BUILDING" <=> some
                /\ ~some => o.state = "COMPLETE"
                /\ o.visited = untilFirstMissing

\* The calls of configure in a call log.
configureCalls(log_) ==
    {n \in 1..Len(log_) : log_[n].fn = "Graticules::configure"}

BuilderEdges ==
    {<<"UNINITIALIZED", "SERVICES_SET">>, <<"UNINITIALIZED", "ERROR_SERVICES">>,
     <<"SERVICES_SET", "BUILDING">>,
     <<"BUILDING", "COMPLETE">>, <<"BUILDING", "ERROR_BUILDING">>}

\* The changes one call can make along those edges: one edge, or the two
\* that setWidgets takes through BUILDING.
BuilderPaths ==
    BuilderEdges \cup {<<"SERVICES_SET", e[2]>> :
                          e \in {f \in BuilderEdges : f[1] = "BUILDING"}}

\* C18: every change of the builder's state by a call of setServices or
\* setWidgets follows the edges UNINITIALIZED -> {SERVICES_SET,
\* ERROR_SERVICES}, SERVICES_SET -> BUILDING, BUILDING -> {COMPLETE,
\* ERROR_BUILDING}; so setWidgets leaves ERROR_SERVICES and UNINITIALIZED as
\* they are.
C18_BuilderTransitionDiscipline ==
    [][(builderState' /= builderState /\ undefined' = "no") =>
          (<<builderState, builderState'>> \in BuilderPaths)]_vars

(***************************************************************************)
(* Claims about Graticules, checked under SpecGraticules.                  *)
(***************************************************************************)
\* The last call of configure.
lastConfigure == calls[Len(calls)]

\* Both division counts of the last call are in 1..MAX_GRATICULES and its
\* boundary has x2 >= x1 and y2 >= y1.
wellFormed ==
    /\ calls /= <<>>
    /\ lastConfigure.timeDivisions \in 1..MAX_GRATICULES
    /\ lastConfigure.voltageDivisions \in 1..MAX_GRATICULES
    /\ lastConfigure.boundary.x2 >= lastConfigure.boundary.x1
    /\ lastConfigure.boundary.y2 >= lastConfigure.boundary.y1

\* C19: after configure with a boundary x2 >= x1, y2 >= y1 and division
\* counts in 1..MAX_GRATICULES, the step of an axis is the integer quotient
\* of its inclusive span (end - start + 1) by its count, TIME line i runs
\* from (x1 + i*step, y1) to (x1 + i*step, y2) and VOLTAGE line i from
\* (x1, y1 + i*step) to (x2, y1 + i*step), for every i below the count.
C19_StepAndLineSegments ==
    (wellFormed /\ undefined = "no") =>
        LET b == lastConfigure.boundary
            timeStep == ((b.x2 - b.x1) + 1) \div lastConfigure.timeDivisions
            voltStep == ((b.y2 - b.y1) + 1) \div lastConfigure.voltageDivisions
        IN  /\ getStepSize(graticules, "TIME") = timeStep
            /\ getStepSize(graticules, "VOLTAGE") = voltStep
            /\ \A i \in 0..(lastConfigure.timeDivisions - 1) :
                   \A o \in getLineSegment(graticules, i, "TIME") :
                       o.segment = [x1 |-> b.x1 + i * timeStep, y1 |-> b.y1,
                                    x2 |-> b.x1 + i * timeStep, y2 |-> b.y2]
            /\ \A i \in 0..(lastConfigure.voltageDivisions - 1) :
                   \A o \in getLineSegment(graticules, i, "VOLTAGE") :
                       o.segment = [x1 |-> b.x1, y1 |-> b.y1 + i * voltStep,
                                    x2 |-> b.x2, y2 |-> b.y1 + i * voltStep]

\* The indices getLineSegment is asked for: the ends of int8_t, the ends of
\* the arrays, and values between.
SegmentIndices == {-128, -1, 0, 1, 5, 19, 20, 21, 127}

\* C20: for an index that is negative or not below the division count of
\* its axis, whatever that count is, getLineSegment returns the all-zero
\* segment and reads neither array.
C20_OutOfRangeIndex ==
    undefined = "no" =>
        \A type \in AxisTypes, i \in SegmentIndices :
            (i < 0 \/ i >= getDivisions(graticules, type)) =>
                \A o \in getLineSegment(graticules, i, type) :
                    o.segment = LineSegment /\ o.read = NoRead

(***************************************************************************)
(* Claims about Utils::Math, checked under SpecMath.                       *)
(***************************************************************************)
\* w is the real number dimension * sqrt(percent / 100) truncated toward
\* zero (the squares fit TLC's integers for |dimension| <= 4600).
truncatedRoot(percent, dimension, w) ==
    LET abs(n) == IF n < 0 THEN -n ELSE n
    IN  /\ abs(w) * abs(w) * 100 <= dimension * dimension * percent
        /\ dimension * dimension * percent < (abs(w) + 1) * (abs(w) + 1) * 100
        /\ w /= 0 => (w < 0) = (dimension < 0)

\* C21: dimensionScaling(percent, dimension) is dimension * percent / 100
\* truncated toward zero, areaScaling(percent, dimension) is dimension *
\* sqrt(percent / 100) truncated, and areaScaling(100, X) is X.
C21_ScalingOverIntegers ==
    \A n \in DOMAIN calls :
        LET c == calls[n]
        IN  /\ c.fn = "Utils::Math::dimensionScaling" =>
                   c.result = quotient(c.dimension * c.percent, 100)
            /\ (c.fn = "Utils::Math::areaScaling" /\ c.percent = 100) =>
                   c.result = c.dimension
            /\ (c.fn = "Utils::Math::areaScaling" /\ c.dimension \in -4600..4600) =>
                   truncatedRoot(c.percent, c.dimension, c.result)

\* C37: whatever GRAPH record the registry holds, the builder calls
\* configure, and with it setStepSize, only with a time and a voltage
\* division count other than 0.
C37_NoDivisionByZero ==
    \A n \in configureCalls(calls) :
        /\ calls[n].graph.xDivisionQty /= 0
        /\ calls[n].graph.yDivisionQty /= 0

(***************************************************************************)
(* Claims about setup(), checked under SpecOrchestrator.                   *)
(***************************************************************************)
\* How many steps setup has left at most: each step of setScreen, setBuilder
\* and setup lowers it.
stepsLeft ==
    CASE pc = "setScreen" ->
             (CASE screenState = "UNINITIALIZED" -> 8
                [] screenState = "SERVICES_SET" -> 7
                [] screenState = "WIDGETS_REGISTERED" -> 6
                [] OTHER -> 5)
      [] pc = "setBuilder" ->
             (CASE builderState = "UNINITIALIZED" -> 4
                [] builderState = "SERVICES_SET" -> 3
                [] OTHER -> 2)
      [] pc = "drawWidgets" -> 1
      [] OTHER -> 0

\* C22: setup's polling loops end, whatever the registry and the pool hold:
\* until setup has returned the program is running (it has not stopped
\* inside a call), each step leaves fewer steps to take, and the builder is
\* never left in BUILDING.
C22_SetupTerminates ==
    /\ pc /= "returned" => undefined /= "trapped"
    /\ builderState /= "BUILDING"
    /\ pc = "returned" <=> stepsLeft = 0

\* The stage setup invokes next, by the dispatch of setScreen, setBuilder
\* and setup: 1 screen.setServices, 2 screen.setRegistry, 3 screen.setWidgets,
\* 4 builder.setServices, 5 builder.setWidgets, 6 screen.drawWidgets, and 0
\* when the next step is a return or the program has stopped.
stage(at, screen, builder, stopped) ==
    CASE stopped -> 0
      [] at = "setScreen" /\ screen = "UNINITIALIZED" -> 1
      [] at = "setScreen" /\ screen = "SERVICES_SET" -> 2
      [] at = "setScreen" /\ screen = "WIDGETS_REGISTERED" -> 3
      [] at = "setBuilder" /\ builder = "UNINITIALIZED" -> 4
      [] at = "setBuilder" /\ builder = "SERVICES_SET" -> 5
      [] at = "drawWidgets" -> 6
      [] OTHER -> 0

ErrorStates ==
    {"ERROR_SERVICES", "ERROR_REGISTRATION", "ERROR_ATTRIBUTES", "ERROR_BUILDING"}

\* C34: setup invokes the stages strictly in the order screen.setServices,
\* setRegistry, setWidgets, builder.setServices, builder.setWidgets,
\* drawWidgets; the builder is started only with the screen in
\* ATTRIBUTES_SET, drawWidgets is called only with the screen in
\* ATTRIBUTES_SET and the builder in COMPLETE, and once a stage has ended in
\* an error state no stage is invoked any more.
C34_StageOrdering ==
    [][LET now == stage(pc, screenState, builderState, undefined = "trapped")
           next == stage(pc', screenState', builderState', undefined' = "trapped")
       IN  /\ (now /= 0 /\ next /= 0) => next = now + 1
           /\ (now = 0 /\ next /= 0) =>
                 \/ next = 4 /\ pc = "setScreen"
                 \/ next = 6 /\ pc = "setBuilder"
           /\ next = 4 => screenState' = "ATTRIBUTES_SET"
           /\ next = 6 => (screenState' = "ATTRIBUTES_SET"
                           /\ builderState' = "COMPLETE")
           /\ (screenState \in ErrorStates \/ builderState \in ErrorStates) =>
                 (now = 0 /\ next = 0 /\ screenState' = screenState
                  /\ builderState' = builderState)
           /\ (screenState' \in ErrorStates \/ builderState' \in ErrorStates) =>
                 next = 0]_vars

\* C34's case: all six stages have run and setup has returned.
C34_Witness ==
    /\ pc = "returned"
    /\ screenState = "COMPLETE"
    /\ builderState = "COMPLETE"
    /\ undefined = "no"

C29_ResolvePerRecord ==
    screenState = "SERVICES_SET" =>
        \A o \in screenSetRegistry(screenState, screenServices, registry, attributes) :
            \A i \in entries(registry) :
                LET a == attributes[registry[i].key]
                    g == a.geometry
                    h == o.attributes[registry[i].key].geometry
                IN  /\ resolvedSize(g.mode, g.width, g.percentSize, horizontalRes, h.width)
                    /\ resolvedSize(g.mode, g.height, g.percentSize, verticalRes, h.height)
                    /\ g.mode = "ABSOLUTE" =>
                          h.width = g.width /\ h.height = g.height
                    /\ a.isCustom =>
                          h.boundary = [x1 |-> 0, y1 |-> 0, x2 |-> h.width - 1,
                                        y2 |-> h.height - 1]
                    /\ ~a.isCustom => h.boundary = g.boundary

\* C29's case: a custom record of mode ABSOLUTE with a stored size, beside
\* the label's record, which is not custom, and the graph's, which is sized
\* by area.
C29_Witness ==
    /\ screenState = "SERVICES_SET"
    /\ attributes[TypeDEFAULT].isCustom
    /\ attributes[TypeDEFAULT].geometry.mode = "ABSOLUTE"
    /\ attributes[TypeDEFAULT].geometry.width = 150
    /\ attributes[TypeDEFAULT].geometry.height = 1
    /\ ~attributes[TypeLABEL].isCustom
    /\ \E o \in screenSetRegistry(screenState, screenServices, registry, attributes) :
           /\ o.attributes[TypeDEFAULT].geometry.boundary =
                  [x1 |-> 0, y1 |-> 0, x2 |-> 149, y2 |-> 0]
           /\ o.attributes[TypeLABEL].geometry.boundary = Boundary
           /\ o.attributes[TypeGRAPH].geometry.boundary.x2 = 400

\* C30: every boundary setRegistry stores into a custom record has
\* x2 >= x1 and y2 >= y1, whatever width, height and percentage the record
\* holds, 0 included.
C30_BoundaryOrdered ==
    screenState = "SERVICES_SET" =>
        \A o \in screenSetRegistry(screenState, screenServices, registry, attributes) :
            \A i \in entries(registry) :
                LET b == o.attributes[registry[i].key]
                IN  b.isCustom =>
                        /\ b.geometry.boundary.x2 >= b.geometry.boundary.x1
                        /\ b.geometry.boundary.y2 >= b.geometry.boundary.y1

(***************************************************************************)
(* Claims about the style calls of setWidgets, checked under SpecStyle.    *)
(***************************************************************************)
\* The style groups that setWidgets applies on a condition.
GatedGroups == {"spacing", "background", "border", "outline", "text"}

\* The fields of a group of record a, and those fields as constructed.
groupFields(a, group) ==
    CASE group = "spacing" -> a.spacing
      [] group = "background" -> a.background
      [] group = "border" -> a.border
      [] group = "outline" -> a.outline
      [] OTHER -> a.text

\* The style calls in the log of the last setWidgets.
styleCalls == {n \in 1..Len(calls) : calls[n].fn = "style"}

\* C31: setWidgets issues the style calls of spacing, background, border,
\* outline and text for a record only if some field of that group differs
\* from the value it is constructed with; a group with all fields as
\* constructed gets no style call.
C31_StyleGroupGating ==
    \A n \in styleCalls : \A group \in GatedGroups :
        (\E m \in 1..Len(calls[n].groups) : calls[n].groups[m] = group) =>
            groupFields(attributes[calls[n].type], group) /=
                groupFields(Attributes, group)

\* C31's case: setWidgets has styled a record whose spacing has a field set
\* and whose outline is as constructed: spacing is applied, outline is not.
C31_Witness ==
    \E n \in styleCalls :
        LET a == attributes[calls[n].type]
            applied == {calls[n].groups[m] : m \in 1..Len(calls[n].groups)}
        IN  /\ a.spacing /= Attributes.spacing
            /\ a.outline = Attributes.outline
            /\ "spacing" \in applied
            /\ "outline" \notin applied

(***************************************************************************)
(* Further claims about Graticules, checked under SpecGraticules.          *)
(***************************************************************************)
\* Every configure so far had at least one division on each axis and a
\* boundary with x2 >= x1 and y2 >= y1.
allOrdered ==
    /\ calls /= <<>>
    /\ \A n \in 1..Len(calls) :
           /\ calls[n].timeDivisions >= 1
           /\ calls[n].voltageDivisions >= 1
           /\ calls[n].boundary.x2 >= calls[n].boundary.x1
           /\ calls[n].boundary.y2 >= calls[n].boundary.y1

\* Axis type has exactly d lines, step pixels apart from start on, and its
\* last band, from line d - 1 to end inclusive, is step + rest pixels wide.
bands(type, d, start, end_, step, rest) ==
    /\ \A i \in 0..(d - 1) :
           \A o \in getLineSegment(graticules, i, type) :
               /\ o.undefined = "no"
               /\ (IF type = "TIME" THEN o.segment.x1 ELSE o.segment.y1) =
                      start + i * step
    /\ \A o \in getLineSegment(graticules, d, type) :
           o.segment = LineSegment /\ o.read = NoRead
    /\ end_ - (start + (d - 1) * step) + 1 = step + rest

\* C32: after configure with d >= 1 divisions on an axis of inclusive span
\* s, the axis has exactly d lines (none with index d), consecutive lines
\* are s \div d pixels apart, and the last band is s \div d + s % d pixels
\* wide.
C32_TruncatedRemainder ==
    allOrdered =>
        LET b == lastConfigure.boundary
            timeSpan == (b.x2 - b.x1) + 1
            voltSpan == (b.y2 - b.y1) + 1
            timeDiv == lastConfigure.timeDivisions
            voltDiv == lastConfigure.voltageDivisions
        IN  /\ undefined = "no"
            /\ getStepSize(graticules, "TIME") = timeSpan \div timeDiv
            /\ getStepSize(graticules, "VOLTAGE") = voltSpan \div voltDiv
            /\ bands("TIME", timeDiv, b.x1, b.x2,
                     getStepSize(graticules, "TIME"), timeSpan % timeDiv)
            /\ bands("VOLTAGE", voltDiv, b.y1, b.y2,
                     getStepSize(graticules, "VOLTAGE"), voltSpan % voltDiv)

\* C33: every index at which configure writes Time or Voltage, and every
\* index at which getLineSegment reads them, lies in 0..MAX_GRATICULES-1,
\* whatever division counts configure was given.
C33_BackingArrayBound ==
    calls /= <<>> =>
        \A type \in AxisTypes :
            /\ writtenIndices(graticules, type) \subseteq 0..(MAX_GRATICULES - 1)
            /\ \A i \in SegmentIndices :
                   \A o \in getLineSegment(graticules, i, type) :
                       o.read /= NoRead => o.read \in 0..(MAX_GRATICULES - 1)

\* The descriptor the draw callback is to emit for line i of an axis of
\* the configured grid.
expectedLine(type, i) ==
    LET isOrigin == i = getAxisIndex(graticules, type)
    IN  {[color |-> convert565(IF isOrigin THEN graticules.originColor
                               ELSE graticules.gridlineColor),
          width |-> IF isOrigin THEN graticules.originThickness
                    ELSE graticules.gridlineThickness,
          p1 |-> [x |-> o.segment.x1, y |-> o.segment.y1],
          p2 |-> [x |-> o.segment.x2, y |-> o.segment.y2]] :
            o \in getLineSegment(graticules, i, type)}

\* C35: a draw event emits, for each axis with d configured divisions,
\* exactly d line-draw commands, the TIME lines and then the VOLTAGE lines,
\* each in index order 0..d-1 with the segment getLineSegment(i, axis); the
\* command of index i has the origin colour and thickness if i is the
\* origin index of the axis, and the gridline colour and thickness if not.
C35_DrawCallback ==
    calls /= <<>> =>
        \A o \in graticule_draw_event_cb(graticules) :
            LET timeDiv == getDivisions(graticules, "TIME")
                voltDiv == getDivisions(graticules, "VOLTAGE")
            IN  /\ o.undefined = "no"
                /\ Len(o.commands) = timeDiv + voltDiv
                /\ \A i \in 0..(timeDiv - 1) :
                       o.commands[i + 1] \in expectedLine("TIME", i)
                /\ \A i \in 0..(voltDiv - 1) :
                       o.commands[timeDiv + i + 1] \in expectedLine("VOLTAGE", i)

\* C38: after configure with a boundary x2 >= x1, y2 >= y1 and division
\* counts in 1..MAX_GRATICULES, every segment getLineSegment returns for a
\* valid index lies inside the boundary: a TIME line is vertical with
\* x1 <= x <= x2, a VOLTAGE line horizontal with y1 <= y <= y2.
C38_GridContainment ==
    (wellFormed /\ undefined = "no") =>
        LET b == lastConfigure.boundary
        IN  /\ \A i \in 0..(lastConfigure.timeDivisions - 1) :
                   \A o \in getLineSegment(graticules, i, "TIME") :
                       /\ o.segment.x1 = o.segment.x2
                       /\ b.x1 <= o.segment.x1 /\ o.segment.x1 <= b.x2
            /\ \A i \in 0..(lastConfigure.voltageDivisions - 1) :
                   \A o \in getLineSegment(graticules, i, "VOLTAGE") :
                       /\ o.segment.y1 = o.segment.y2
                       /\ b.y1 <= o.segment.y1 /\ o.segment.y1 <= b.y2

\* A Graticules object configured once, from construction, with the
\* arguments of the last configure call.
configuredAfresh ==
    configure(Graticules, lastConfigure.boundary, ColorRED, 2, ColorBLACK, 1,
              lastConfigure.timeDivisions, lastConfigure.voltageDivisions,
              quotient(lastConfigure.timeDivisions, 2),
              quotient(lastConfigure.voltageDivisions, 2))

\* C39: after any sequence of configure calls, getLineSegment, getStepSize
\* and getDivisions answer as they would had only the last call been made;
\* so an index that was valid only under an earlier configuration gets the
\* all-zero segment, not the earlier segment.
C39_NoStaleGeometry ==
    (calls /= <<>> /\ undefined = "no") =>
        \A f \in configuredAfresh :
            \A type \in AxisTypes :
                /\ getStepSize(graticules, type) = getStepSize(f.graticules, type)
                /\ getDivisions(graticules, type) = getDivisions(f.graticules, type)
                /\ \A i \in SegmentIndices :
                       getLineSegment(graticules, i, type) =
                           getLineSegment(f.graticules, i, type)

====
